---- MODULE Spec2Model ----
(***************************************************************************)
(* The OAuth token store (src/src/token-manager.ts, class TokenManager)    *)
(* and the oauth.ts functions it calls (isTokenExpired,                    *)
(* refreshAccessToken), as a state machine.                                *)
(*                                                                         *)
(* JavaScript runs each synchronous stretch of code to completion, so an   *)
(* action is one such stretch: a whole synchronous method, or the part of  *)
(* the async getValidAccessToken up to its await, or the part after it.    *)
(* A suspended getValidAccessToken call is represented by the refresh      *)
(* request it has put on the network: the request carries everything the   *)
(* continuation reads (the refreshToken argument).                         *)
(***************************************************************************)
EXTENDS Integers, Sequences, FiniteSets, Bags, TLC

VARIABLES
  tokens,        \* TokenManager.tokens: an OAuthTokens record, or Null
  pendingState,  \* TokenManager.pendingState: an OAuthState record, or Null
  config,        \* TokenManager.config: an OAuthConfig record, or Null
  now,           \* Date.now(), in milliseconds
  network,       \* bag of requests sent (token endpoint, metadata URLs) and not yet answered
  last           \* the step just taken: [op, arg, ret, branch]

vars == <<tokens, pendingState, config, now, network, last>>

(***************************************************************************)
(* Bounds.                                                                 *)
(***************************************************************************)
MaxTicks == 2       \* the clock advances at most this many minutes
MaxInFlight == 2    \* at most this many getValidAccessToken calls are suspended at once
MaxExchanges == 1   \* at most this many code exchanges are in flight at once

(***************************************************************************)
(* JavaScript values.  null is the record Null; an optional field (one     *)
(* that may be undefined) is <<>> when undefined and <<v>> when it is v.   *)
(***************************************************************************)
Null == [null |-> TRUE]
Undefined == << >>
Some(v) == <<v>>

\* !!x for an optional number: undefined and 0 are falsy
TruthyNum(o) == o # Undefined /\ o[1] # 0
\* !!x for an optional string: undefined and "" are falsy
TruthyStr(o) == o # Undefined /\ o[1] # ""

MinuteMs == 60 * 1000

(***************************************************************************)
(* Return values of the operations.                                        *)
(***************************************************************************)
Void == [kind |-> "void"]
RetNull == [kind |-> "null"]
RetToken(s) == [kind |-> "token", val |-> s]
RetBool(b) == [kind |-> "bool", val |-> b]
RetValue(v) == [kind |-> "value", val |-> v]
Thrown(msg) == [kind |-> "error", msg |-> msg]
Suspended == [kind |-> "suspended"]

(***************************************************************************)
(* oauth.ts                                                                *)
(***************************************************************************)
\* isTokenExpired with > where the code has >=
isTokenExpired_Strict(t, time) ==
  IF t = Null \/ ~TruthyNum(t.expiresAt)
    THEN TRUE
    ELSE time > t.expiresAt[1] - 5 * 60 * 1000

isTokenExpired(t, time) ==
  IF t = Null \/ ~TruthyNum(t.expiresAt)
    THEN TRUE
    ELSE time >= t.expiresAt[1] - 5 * 60 * 1000

\* the form-encoded body refreshAccessToken posts to config.tokenUrl
RefreshRequest(cfg, refreshToken) ==
  [ url           |-> cfg.tokenUrl,
    grant_type    |-> "refresh_token",
    refresh_token |-> refreshToken,
    client_id     |-> cfg.clientId,
    client_secret |-> IF TruthyStr(cfg.clientSecret) THEN cfg.clientSecret ELSE Undefined,
    resource      |-> IF TruthyStr(cfg.resource) THEN cfg.resource ELSE Undefined ]

\* a result that takes the refresh token from the response alone
RefreshedTokens_NoCarry(data, refreshToken, time) ==
  [ accessToken  |-> data.access_token,
    refreshToken |-> data.refresh_token,
    expiresAt    |-> IF TruthyNum(data.expires_in) THEN Some(time + data.expires_in[1] * 1000)
                                                    ELSE Undefined,
    tokenType    |-> IF TruthyStr(data.token_type) THEN data.token_type[1] ELSE "Bearer",
    scope        |-> data.scope ]

\* the OAuthTokens refreshAccessToken returns for a success response with JSON body data
RefreshedTokens(data, refreshToken, time) ==
  [ accessToken  |-> data.access_token,
    refreshToken |-> IF TruthyStr(data.refresh_token) THEN data.refresh_token
                                                       ELSE Some(refreshToken),
    expiresAt    |-> IF TruthyNum(data.expires_in) THEN Some(time + data.expires_in[1] * 1000)
                                                    ELSE Undefined,
    tokenType    |-> IF TruthyStr(data.token_type) THEN data.token_type[1] ELSE "Bearer",
    scope        |-> data.scope ]

\* the error refreshAccessToken throws: a rejected fetch propagates as it is,
\* a response that is not ok becomes 'Token refresh failed: <body>'
RefreshError(resp) ==
  IF resp.kind = "rejected" THEN resp.text ELSE "Token refresh failed: " \o resp.text

(***************************************************************************)
(* Inputs.                                                                 *)
(***************************************************************************)
Configs ==
  { [ clientId         |-> "test-client",
      clientSecret     |-> Undefined,
      authorizationUrl |-> "https://auth.example.com/authorize",
      tokenUrl         |-> "https://auth.example.com/token",
      redirectUri      |-> "http://localhost:3000/callback",
      resource         |-> Undefined ],
    [ clientId         |-> "confidential-client",
      clientSecret     |-> Some("secret"),
      authorizationUrl |-> "https://auth.example.com/authorize",
      tokenUrl         |-> "https://auth.example.com/token",
      redirectUri      |-> "http://localhost:3000/callback",
      resource         |-> Some("https://mcp.example.com") ] }

OAuthStates ==
  { [ state |-> "state-1", codeVerifier |-> "verifier-1", codeChallenge |-> "challenge-1",
      timestamp |-> 0 ],
    [ state |-> "state-2", codeVerifier |-> "verifier-2", codeChallenge |-> "challenge-2",
      timestamp |-> MinuteMs ] }

\* the TokenSets a caller hands to setTokens at time `time`: already expired,
\* exactly on the margin, one minute before the margin, and without expiry
TokenInputs(time) ==
  [ accessToken  : {"a0"},
    refreshToken : {Undefined, Some("r0")},
    expiresAt    : {Undefined} \cup
                   { Some(time + d) : d \in {0 - 1000, 5 * MinuteMs, 6 * MinuteMs} },
    tokenType    : {"Bearer"},
    scope        : {Undefined} ]

\* the arguments isTokenExpired is called with directly at time `time`
ExpiryInputs(time) ==
  {Null} \cup
  [ accessToken  : {"a0"},
    refreshToken : {Undefined},
    expiresAt    : {Undefined, Some(0)} \cup
                   { Some(time + d) : d \in {0 - 1000, 4 * MinuteMs, 5 * MinuteMs,
                                             5 * MinuteMs + 1, 10 * MinuteMs} },
    tokenType    : {"Bearer"},
    scope        : {Undefined} ]

\* what the token endpoint may answer to a refresh request
SuccessResponses ==
  [ kind : {"ok"},
    data : [ access_token  : {"a1"},
             refresh_token : {Undefined, Some("r1")},
             expires_in    : {Undefined, Some(0), Some(240), Some(360)},
             token_type    : {Undefined},
             scope         : {Undefined} ] ]

FailureResponses ==
  { [kind |-> "notOk", text |-> "Invalid refresh token"],
    [kind |-> "rejected", text |-> "fetch failed"] }

(***************************************************************************)
(* The step record.                                                        *)
(***************************************************************************)
Step(op, arg, ret, branch) == [op |-> op, arg |-> arg, ret |-> ret, branch |-> branch]

Init ==
  /\ tokens = Null
  /\ pendingState = Null
  /\ config = Null
  /\ now = 0
  /\ network = EmptyBag
  /\ last = Step("new", Null, Void, "")

(***************************************************************************)
(* TokenManager                                                            *)
(***************************************************************************)
\* setConfig that also resets the session
SetConfig_ClearsTokens(cfg) ==
  /\ config' = cfg
  /\ tokens' = Null
  /\ last' = Step("setConfig", cfg, Void, "")
  /\ UNCHANGED <<pendingState, now, network>>

SetConfig(cfg) ==
  /\ config' = cfg
  /\ last' = Step("setConfig", cfg, Void, "")
  /\ UNCHANGED <<tokens, pendingState, now, network>>

GetConfig ==
  /\ last' = Step("getConfig", Null, RetValue(config), "")
  /\ UNCHANGED <<tokens, pendingState, config, now, network>>

SetPendingState(state) ==
  /\ pendingState' = state
  /\ last' = Step("setPendingState", state, Void, "")
  /\ UNCHANGED <<tokens, config, now, network>>

\* getPendingState that reads without clearing
GetPendingState_Peek ==
  /\ last' = Step("getPendingState", Null, RetValue(pendingState), "")
  /\ UNCHANGED <<tokens, pendingState, config, now, network>>

GetPendingState ==
  /\ pendingState' = Null
  /\ last' = Step("getPendingState", Null, RetValue(pendingState), "")
  /\ UNCHANGED <<tokens, config, now, network>>

SetTokens(t) ==
  /\ tokens' = t
  /\ last' = Step("setTokens", t, Void, "")
  /\ UNCHANGED <<pendingState, config, now, network>>

GetTokens ==
  /\ last' = Step("getTokens", Null, RetValue(tokens), "")
  /\ UNCHANGED <<tokens, pendingState, config, now, network>>

ClearTokens ==
  /\ tokens' = Null
  /\ last' = Step("clearTokens", Null, Void, "")
  /\ UNCHANGED <<pendingState, config, now, network>>

\* getValidAccessToken that checks the config before the refresh token
GetValidAccessToken_ConfigFirst ==
  IF tokens = Null THEN
    /\ last' = Step("getValidAccessToken", Null, RetNull, "noTokens")
    /\ UNCHANGED <<tokens, pendingState, config, now, network>>
  ELSE IF isTokenExpired(tokens, now) THEN
    IF config = Null THEN
      /\ last' = Step("getValidAccessToken", Null, Thrown("OAuth config not set"), "noConfig")
      /\ UNCHANGED <<tokens, pendingState, config, now, network>>
    ELSE IF ~TruthyStr(tokens.refreshToken) THEN
      /\ tokens' = Null
      /\ last' = Step("getValidAccessToken", Null, RetNull, "noRefreshToken")
      /\ UNCHANGED <<pendingState, config, now, network>>
    ELSE
      /\ BagCardinality(network) < MaxInFlight
      /\ network' = network (+) SetToBag({RefreshRequest(config, tokens.refreshToken[1])})
      /\ last' = Step("getValidAccessToken", Null, Suspended, "refresh")
      /\ UNCHANGED <<tokens, pendingState, config, now>>
  ELSE
    /\ last' = Step("getValidAccessToken", Null, RetToken(tokens.accessToken), "valid")
    /\ UNCHANGED <<tokens, pendingState, config, now, network>>

\* getValidAccessToken that refreshes whenever it can, expired or not
GetValidAccessToken_Eager ==
  IF tokens = Null THEN
    /\ last' = Step("getValidAccessToken", Null, RetNull, "noTokens")
    /\ UNCHANGED <<tokens, pendingState, config, now, network>>
  ELSE IF isTokenExpired(tokens, now) \/ (TruthyStr(tokens.refreshToken) /\ config # Null) THEN
    IF ~TruthyStr(tokens.refreshToken) THEN
      /\ tokens' = Null
      /\ last' = Step("getValidAccessToken", Null, RetNull, "noRefreshToken")
      /\ UNCHANGED <<pendingState, config, now, network>>
    ELSE IF config = Null THEN
      /\ last' = Step("getValidAccessToken", Null, Thrown("OAuth config not set"), "noConfig")
      /\ UNCHANGED <<tokens, pendingState, config, now, network>>
    ELSE
      /\ BagCardinality(network) < MaxInFlight
      /\ network' = network (+) SetToBag({RefreshRequest(config, tokens.refreshToken[1])})
      /\ last' = Step("getValidAccessToken", Null, Suspended, "refresh")
      /\ UNCHANGED <<tokens, pendingState, config, now>>
  ELSE
    /\ last' = Step("getValidAccessToken", Null, RetToken(tokens.accessToken), "valid")
    /\ UNCHANGED <<tokens, pendingState, config, now, network>>

\* getValidAccessToken that drops the expired tokens before it awaits the refresh
GetValidAccessToken_ClearsBeforeRefresh ==
  IF tokens = Null THEN
    /\ last' = Step("getValidAccessToken", Null, RetNull, "noTokens")
    /\ UNCHANGED <<tokens, pendingState, config, now, network>>
  ELSE IF isTokenExpired(tokens, now) THEN
    IF ~TruthyStr(tokens.refreshToken) THEN
      /\ tokens' = Null
      /\ last' = Step("getValidAccessToken", Null, RetNull, "noRefreshToken")
      /\ UNCHANGED <<pendingState, config, now, network>>
    ELSE IF config = Null THEN
      /\ last' = Step("getValidAccessToken", Null, Thrown("OAuth config not set"), "noConfig")
      /\ UNCHANGED <<tokens, pendingState, config, now, network>>
    ELSE
      /\ BagCardinality(network) < MaxInFlight
      /\ network' = network (+) SetToBag({RefreshRequest(config, tokens.refreshToken[1])})
      /\ tokens' = Null
      /\ last' = Step("getValidAccessToken", Null, Suspended, "refresh")
      /\ UNCHANGED <<pendingState, config, now>>
  ELSE
    /\ last' = Step("getValidAccessToken", Null, RetToken(tokens.accessToken), "valid")
    /\ UNCHANGED <<tokens, pendingState, config, now, network>>

\* getValidAccessToken that drops the tokens when it finds no config
GetValidAccessToken_NoConfigClears ==
  IF tokens = Null THEN
    /\ last' = Step("getValidAccessToken", Null, RetNull, "noTokens")
    /\ UNCHANGED <<tokens, pendingState, config, now, network>>
  ELSE IF isTokenExpired(tokens, now) THEN
    IF ~TruthyStr(tokens.refreshToken) THEN
      /\ tokens' = Null
      /\ last' = Step("getValidAccessToken", Null, RetNull, "noRefreshToken")
      /\ UNCHANGED <<pendingState, config, now, network>>
    ELSE IF config = Null THEN
      /\ tokens' = Null
      /\ last' = Step("getValidAccessToken", Null, Thrown("OAuth config not set"), "noConfig")
      /\ UNCHANGED <<pendingState, config, now, network>>
    ELSE
      /\ BagCardinality(network) < MaxInFlight
      /\ network' = network (+) SetToBag({RefreshRequest(config, tokens.refreshToken[1])})
      /\ last' = Step("getValidAccessToken", Null, Suspended, "refresh")
      /\ UNCHANGED <<tokens, pendingState, config, now>>
  ELSE
    /\ last' = Step("getValidAccessToken", Null, RetToken(tokens.accessToken), "valid")
    /\ UNCHANGED <<tokens, pendingState, config, now, network>>

\* getValidAccessToken from its call to its first return, throw or await
GetValidAccessToken ==
  IF tokens = Null THEN
    /\ last' = Step("getValidAccessToken", Null, RetNull, "noTokens")
    /\ UNCHANGED <<tokens, pendingState, config, now, network>>
  ELSE IF isTokenExpired(tokens, now) THEN
    IF ~TruthyStr(tokens.refreshToken) THEN
      /\ tokens' = Null
      /\ last' = Step("getValidAccessToken", Null, RetNull, "noRefreshToken")
      /\ UNCHANGED <<pendingState, config, now, network>>
    ELSE IF config = Null THEN
      /\ last' = Step("getValidAccessToken", Null, Thrown("OAuth config not set"), "noConfig")
      /\ UNCHANGED <<tokens, pendingState, config, now, network>>
    ELSE
      /\ BagCardinality(network) < MaxInFlight
      /\ network' = network (+) SetToBag({RefreshRequest(config, tokens.refreshToken[1])})
      /\ last' = Step("getValidAccessToken", Null, Suspended, "refresh")
      /\ UNCHANGED <<tokens, pendingState, config, now>>
  ELSE
    /\ last' = Step("getValidAccessToken", Null, RetToken(tokens.accessToken), "valid")
    /\ UNCHANGED <<tokens, pendingState, config, now, network>>

\* a continuation that returns the new token without storing the new TokenSet
RefreshSucceeded_NotStored(req, resp) ==
  /\ BagIn(req, network)
  /\ network' = network (-) SetToBag({req})
  /\ LET newTokens == RefreshedTokens(resp.data, req.refresh_token, now)
     IN last' = Step("refreshSucceeded", [req |-> req, resp |-> resp],
                     RetToken(newTokens.accessToken), "")
  /\ UNCHANGED <<tokens, pendingState, config, now>>

\* a continuation that writes the new access token into the stored TokenSet
RefreshSucceeded_FieldMerge(req, resp) ==
  /\ BagIn(req, network)
  /\ network' = network (-) SetToBag({req})
  /\ LET newTokens == RefreshedTokens(resp.data, req.refresh_token, now)
     IN /\ tokens' = IF tokens = Null THEN newTokens
                     ELSE [tokens EXCEPT !.accessToken = newTokens.accessToken]
        /\ last' = Step("refreshSucceeded", [req |-> req, resp |-> resp],
                        RetToken(newTokens.accessToken), "")
  /\ UNCHANGED <<pendingState, config, now>>

\* the awaited refreshAccessToken resolves: the rest of the try block
RefreshSucceeded(req, resp) ==
  /\ BagIn(req, network)
  /\ network' = network (-) SetToBag({req})
  /\ LET newTokens == RefreshedTokens(resp.data, req.refresh_token, now)
     IN /\ tokens' = newTokens
        /\ last' = Step("refreshSucceeded", [req |-> req, resp |-> resp],
                        RetToken(newTokens.accessToken), "")
  /\ UNCHANGED <<pendingState, config, now>>

\* a catch block that rethrows without clearing the tokens
RefreshFailed_KeepsTokens(req, resp) ==
  /\ BagIn(req, network)
  /\ network' = network (-) SetToBag({req})
  /\ last' = Step("refreshFailed", [req |-> req, resp |-> resp],
                  Thrown(RefreshError(resp)), "")
  /\ UNCHANGED <<tokens, pendingState, config, now>>

\* a catch block that sends the refresh request once more
RefreshFailed_Retries(req, resp) ==
  /\ BagIn(req, network)
  /\ network' = network
  /\ last' = Step("refreshFailed", [req |-> req, resp |-> resp], Suspended, "retry")
  /\ UNCHANGED <<tokens, pendingState, config, now>>

\* the awaited refreshAccessToken throws: the catch block
RefreshFailed(req, resp) ==
  /\ BagIn(req, network)
  /\ network' = network (-) SetToBag({req})
  /\ tokens' = Null
  /\ last' = Step("refreshFailed", [req |-> req, resp |-> resp],
                  Thrown(RefreshError(resp)), "")
  /\ UNCHANGED <<pendingState, config, now>>

\* isAuthenticated that only looks for stored tokens
IsAuthenticated_TokensOnly ==
  /\ last' = Step("isAuthenticated", Null, RetBool(tokens # Null), "")
  /\ UNCHANGED <<tokens, pendingState, config, now, network>>

IsAuthenticated ==
  /\ last' = Step("isAuthenticated", Null,
                  RetBool(tokens # Null /\ ~isTokenExpired(tokens, now)), "")
  /\ UNCHANGED <<tokens, pendingState, config, now, network>>

\* getStatus that reports a refresh token whenever tokens are stored
GetStatus_RefreshFlagFromTokens ==
  /\ last' = Step("getStatus", Null,
                  IF tokens = Null
                    THEN RetValue([authenticated |-> FALSE, hasRefreshToken |-> FALSE])
                    ELSE RetValue([authenticated   |-> ~isTokenExpired(tokens, now),
                                   hasRefreshToken |-> TRUE,
                                   expiresAt       |-> tokens.expiresAt,
                                   tokenType       |-> tokens.tokenType,
                                   scope           |-> tokens.scope]),
                  "")
  /\ UNCHANGED <<tokens, pendingState, config, now, network>>

GetStatus ==
  /\ last' = Step("getStatus", Null,
                  IF tokens = Null
                    THEN RetValue([authenticated |-> FALSE, hasRefreshToken |-> FALSE])
                    ELSE RetValue([authenticated   |-> ~isTokenExpired(tokens, now),
                                   hasRefreshToken |-> TruthyStr(tokens.refreshToken),
                                   expiresAt       |-> tokens.expiresAt,
                                   tokenType       |-> tokens.tokenType,
                                   scope           |-> tokens.scope]),
                  "")
  /\ UNCHANGED <<tokens, pendingState, config, now, network>>

\* a direct call of the exported isTokenExpired
IsTokenExpiredCall(t) ==
  /\ last' = Step("isTokenExpired", t, RetBool(isTokenExpired(t, now)), "")
  /\ UNCHANGED <<tokens, pendingState, config, now, network>>

\* time passes
Tick ==
  /\ now < MaxTicks * MinuteMs
  /\ now' = now + MinuteMs
  /\ last' = Step("tick", Null, Void, "")
  /\ UNCHANGED <<tokens, pendingState, config, network>>

Next ==
  \/ \E cfg \in Configs : SetConfig(cfg)
  \/ GetConfig
  \/ \E state \in OAuthStates : SetPendingState(state)
  \/ GetPendingState
  \/ \E t \in TokenInputs(now) : SetTokens(t)
  \/ GetTokens
  \/ ClearTokens
  \/ GetValidAccessToken
  \/ \E req \in BagToSet(network), resp \in SuccessResponses : RefreshSucceeded(req, resp)
  \/ \E req \in BagToSet(network), resp \in FailureResponses : RefreshFailed(req, resp)
  \/ IsAuthenticated
  \/ GetStatus
  \/ \E t \in ExpiryInputs(now) : IsTokenExpiredCall(t)
  \/ Tick

Spec == Init /\ [][Next]_vars

(***************************************************************************)
(* The token store used the way a long-running caller uses it: configured, *)
(* holding a TokenSet with a refresh token, the token endpoint granting    *)
(* every refresh request.                                                  *)
(***************************************************************************)
RefreshOkInit ==
  /\ config \in Configs
  /\ tokens \in { t \in TokenInputs(0) : TruthyStr(t.refreshToken) }
  /\ pendingState = Null
  /\ now = 0
  /\ network = EmptyBag
  /\ last = Step("new", Null, Void, "")

RefreshOkNext ==
  \/ GetValidAccessToken
  \/ \E req \in BagToSet(network), resp \in SuccessResponses : RefreshSucceeded(req, resp)
  \/ GetTokens
  \/ IsAuthenticated
  \/ GetStatus
  \/ Tick

RefreshOkSpec == RefreshOkInit /\ [][RefreshOkNext]_vars

(***************************************************************************)
(* The authorization-code flow: beginning it, and completing it from the   *)
(* redirect's code and state.  exchangeCodeForToken is oauth.ts; the       *)
(* callback handler of the token acquisition script validates the state    *)
(* against its own OAuthState; the oauth_initiate / oauth_complete         *)
(* handlers keep the OAuthState in the TokenManager's pendingState.        *)
(***************************************************************************)
\* the form-encoded body exchangeCodeForToken posts to config.tokenUrl
ExchangeRequest(cfg, code, codeVerifier) ==
  [ url           |-> cfg.tokenUrl,
    grant_type    |-> "authorization_code",
    code          |-> code,
    redirect_uri  |-> cfg.redirectUri,
    client_id     |-> cfg.clientId,
    code_verifier |-> codeVerifier,
    client_secret |-> IF TruthyStr(cfg.clientSecret) THEN cfg.clientSecret ELSE Undefined,
    resource      |-> IF TruthyStr(cfg.resource) THEN cfg.resource ELSE Undefined ]

\* the OAuthTokens exchangeCodeForToken returns for a success response with JSON body data
ExchangedTokens(data, time) ==
  [ accessToken  |-> data.access_token,
    refreshToken |-> data.refresh_token,
    expiresAt    |-> IF TruthyNum(data.expires_in) THEN Some(time + data.expires_in[1] * 1000)
                                                    ELSE Undefined,
    tokenType    |-> IF TruthyStr(data.token_type) THEN data.token_type[1] ELSE "Bearer",
    scope        |-> data.scope ]

\* the error exchangeCodeForToken throws
\* an exchange error that leaves out the body of the response
ExchangeError_NoBody(resp) ==
  IF resp.kind = "rejected" THEN resp.text ELSE "Token exchange failed"

ExchangeError(resp) ==
  IF resp.kind = "rejected" THEN resp.text ELSE "Token exchange failed: " \o resp.text

\* getPendingState as a function of the field: what it returns and what it leaves
getPendingState_Peek(pending) == [returned |-> pending, pendingState |-> pending]

getPendingState(pending) == [returned |-> pending, pendingState |-> Null]

\* what the two generateRandomString calls of one createOAuthState may return
RandomStrings ==
  { [state |-> "state-1", codeVerifier |-> "verifier-1"],
    [state |-> "state-2", codeVerifier |-> "verifier-2"] }

\* generateCodeChallenge: the base64url SHA-256 digest of the verifier, for the
\* verifiers of the model
generateCodeChallenge(verifier) ==
  CASE verifier = "verifier-1" -> "xTYRBLTDt1gS3-rw_3FBVafZ0iNg9bZYBbG8fRPvkEs"
    [] verifier = "verifier-2" -> "FJO3t0PE8HluwP2_-7vIsnVmjUEqcMhWDRpwAQOBz60"

\* a createOAuthState that hands out the verifier as the challenge
createOAuthState_PlainChallenge(state, codeVerifier, time) ==
  [ state         |-> state,
    codeVerifier  |-> codeVerifier,
    codeChallenge |-> codeVerifier,
    timestamp     |-> time ]

\* createOAuthState, given what its two generateRandomString calls and Date.now
\* return
createOAuthState(state, codeVerifier, time) ==
  [ state         |-> state,
    codeVerifier  |-> codeVerifier,
    codeChallenge |-> generateCodeChallenge(codeVerifier),
    timestamp     |-> time ]

\* the OAuthStates createOAuthState may return at time `time`
NewOAuthStates(time) ==
  { createOAuthState(r.state, r.codeVerifier, time) : r \in RandomStrings }

\* what the redirect may carry as code and state
CallbackCodes == {"code-1"}
CallbackStates == {"state-1", "state-2", "forged"}

\* the query parameters of a redirect that reports no error
CallbackParams ==
  [ code  : {Undefined} \cup { Some(c) : c \in CallbackCodes },
    state : {Undefined} \cup { Some(x) : x \in CallbackStates },
    error : {Undefined, Some("access_denied")} ]

\* what the token endpoint may answer to a code exchange
ExchangeSuccessResponses ==
  [ kind : {"ok"},
    data : [ access_token  : {"a2"},
             refresh_token : {Undefined, Some("r2")},
             expires_in    : {Undefined, Some(3600)},
             token_type    : {Undefined},
             scope         : {Undefined} ] ]

ExchangeFailureResponses ==
  { [kind |-> "notOk", text |-> "invalid_grant"],
    [kind |-> "rejected", text |-> "fetch failed"] }

\* a code exchange in flight, and who awaits it
Exchange(caller, req) == [caller |-> caller, req |-> req]

\* oauth_initiate: refuses without a config, otherwise creates the OAuthState
\* and makes it the pending one
BeginFlow(st) ==
  IF config = Null THEN
    /\ last' = Step("beginFlow", Null, Thrown("OAuth not configured"), "noConfig")
    /\ UNCHANGED <<tokens, pendingState, config, now, network>>
  ELSE
    /\ pendingState' = st
    /\ last' = Step("beginFlow", Null, RetValue([state |-> st.state]), "")
    /\ UNCHANGED <<tokens, config, now, network>>

\* oauth_complete, to its first throw or await: takes the pending state
\* (getPendingState), refuses when there is none or when its state differs from
\* the callback's, and otherwise starts the code exchange
CompleteFlow(code, state) ==
  IF config = Null THEN
    /\ last' = Step("completeFlow", [code |-> code, state |-> state],
                    Thrown("OAuth not configured"), "noConfig")
    /\ UNCHANGED <<tokens, pendingState, config, now, network>>
  ELSE
    LET got == getPendingState(pendingState)
        pending == got.returned
    IN /\ pendingState' = got.pendingState
       /\ IF pending = Null THEN
            /\ last' = Step("completeFlow", [code |-> code, state |-> state],
                            Thrown("No pending OAuth flow"), "noPendingFlow")
            /\ UNCHANGED network
          ELSE IF state # pending.state THEN
            /\ last' = Step("completeFlow", [code |-> code, state |-> state],
                            Thrown("State mismatch"), "stateMismatch")
            /\ UNCHANGED network
          ELSE
            /\ BagCardinality(network) < MaxExchanges
            /\ network' = network (+) SetToBag({Exchange("completeFlow",
                              ExchangeRequest(config, code, pending.codeVerifier))})
            /\ last' = Step("completeFlow", [code |-> code, state |-> state],
                            Suspended, "exchange")
       /\ UNCHANGED <<tokens, config, now>>

\* oauth_complete after the awaited exchangeCodeForToken resolves: stores the tokens
CompleteFlowSucceeded(x, resp) ==
  /\ BagIn(x, network)
  /\ x.caller = "completeFlow"
  /\ network' = network (-) SetToBag({x})
  /\ LET newTokens == ExchangedTokens(resp.data, now)
     IN /\ tokens' = newTokens
        /\ last' = Step("completeFlowSucceeded", [req |-> x.req, resp |-> resp],
                        RetValue(newTokens), "")
  /\ UNCHANGED <<pendingState, config, now>>

\* oauth_complete after the awaited exchangeCodeForToken throws
CompleteFlowFailed(x, resp) ==
  /\ BagIn(x, network)
  /\ x.caller = "completeFlow"
  /\ network' = network (-) SetToBag({x})
  /\ last' = Step("completeFlowFailed", [req |-> x.req, resp |-> resp],
                  Thrown(ExchangeError(resp)), "")
  /\ UNCHANGED <<tokens, pendingState, config, now>>

\* a callback handler that exchanges the code without comparing the state
AcquireTokensCallback_NoStateCheck(cfg, oauthState, params) ==
  /\ IF TruthyStr(params.error) THEN
       /\ last' = Step("acquireTokensCallback", [oauthState |-> oauthState, params |-> params],
                       Thrown("OAuth Error: " \o params.error[1]), "oauthError")
       /\ UNCHANGED network
     ELSE IF ~TruthyStr(params.code) THEN
       /\ last' = Step("acquireTokensCallback", [oauthState |-> oauthState, params |-> params],
                       Thrown("No authorization code"), "noCode")
       /\ UNCHANGED network
     ELSE
       /\ BagCardinality(network) < MaxExchanges
       /\ network' = network (+) SetToBag({Exchange("acquireTokens",
                         ExchangeRequest(cfg, params.code[1], oauthState.codeVerifier))})
       /\ last' = Step("acquireTokensCallback", [oauthState |-> oauthState, params |-> params],
                       Suspended, "exchange")
  /\ UNCHANGED <<tokens, pendingState, config, now>>

\* the callback handler of acquireTokens(cfg), whose createOAuthState() returned
\* oauthState, to its first reject or await
AcquireTokensCallback(cfg, oauthState, params) ==
  /\ IF TruthyStr(params.error) THEN
       /\ last' = Step("acquireTokensCallback", [oauthState |-> oauthState, params |-> params],
                       Thrown("OAuth Error: " \o params.error[1]), "oauthError")
       /\ UNCHANGED network
     ELSE IF params.state # Some(oauthState.state) THEN
       /\ last' = Step("acquireTokensCallback", [oauthState |-> oauthState, params |-> params],
                       Thrown("State mismatch"), "stateMismatch")
       /\ UNCHANGED network
     ELSE IF ~TruthyStr(params.code) THEN
       /\ last' = Step("acquireTokensCallback", [oauthState |-> oauthState, params |-> params],
                       Thrown("No authorization code"), "noCode")
       /\ UNCHANGED network
     ELSE
       /\ BagCardinality(network) < MaxExchanges
       /\ network' = network (+) SetToBag({Exchange("acquireTokens",
                         ExchangeRequest(cfg, params.code[1], oauthState.codeVerifier))})
       /\ last' = Step("acquireTokensCallback", [oauthState |-> oauthState, params |-> params],
                       Suspended, "exchange")
  /\ UNCHANGED <<tokens, pendingState, config, now>>

\* the callback handler after its awaited exchangeCodeForToken settles: it
\* prints the tokens and resolves, or rejects with the error; it stores nothing
AcquireTokensExchangeDone(x, resp) ==
  /\ BagIn(x, network)
  /\ x.caller = "acquireTokens"
  /\ network' = network (-) SetToBag({x})
  /\ last' = Step("acquireTokensExchangeDone", [req |-> x.req, resp |-> resp],
                  IF resp.kind = "ok" THEN RetValue(ExchangedTokens(resp.data, now))
                                      ELSE Thrown(ExchangeError(resp)),
                  "")
  /\ UNCHANGED <<tokens, pendingState, config, now>>

FlowNext ==
  \/ \E cfg \in Configs : SetConfig(cfg)
  \/ \E st \in NewOAuthStates(now) : BeginFlow(st)
  \/ \E code \in CallbackCodes, state \in CallbackStates : CompleteFlow(code, state)
  \/ \E x \in BagToSet(network), resp \in ExchangeSuccessResponses :
        CompleteFlowSucceeded(x, resp)
  \/ \E x \in BagToSet(network), resp \in ExchangeFailureResponses :
        CompleteFlowFailed(x, resp)
  \/ \E cfg \in Configs, oauthState \in NewOAuthStates(now), params \in CallbackParams :
        AcquireTokensCallback(cfg, oauthState, params)
  \/ \E x \in BagToSet(network),
        resp \in ExchangeSuccessResponses \cup ExchangeFailureResponses :
        AcquireTokensExchangeDone(x, resp)
  \/ ClearTokens

FlowSpec == Init /\ [][FlowNext]_vars

(***************************************************************************)
(* Strings character by character, and the two regular expressions of      *)
(* parseWWWAuthenticateHeader (oauth.ts) as the matcher applies them: the   *)
(* leftmost match, greedy quantifiers, backtracking where it can succeed.   *)
(***************************************************************************)
Char(str, i) == SubSeq(str, i, i)

UpperCaseLetters == "ABCDEFGHIJKLMNOPQRSTUVWXYZ"
LowerCaseLetters == "abcdefghijklmnopqrstuvwxyz"
Digits == "0123456789"

CharsOf(str) == { Char(str, i) : i \in 1..Len(str) }

\* \w, \s and the characters "." does not match
WordChars == CharsOf(UpperCaseLetters) \cup CharsOf(LowerCaseLetters) \cup CharsOf(Digits) \cup {"_"}
SpaceChars == {" ", "\t", "\n", "\r"}
LineTerminators == {"\n", "\r"}

ToLowerChar(c) ==
  IF c \in CharsOf(UpperCaseLetters)
    THEN Char(LowerCaseLetters, CHOOSE i \in 1..Len(UpperCaseLetters) : Char(UpperCaseLetters, i) = c)
    ELSE c

RECURSIVE ToLowerCase(_)
ToLowerCase(str) ==
  IF str = "" THEN "" ELSE ToLowerChar(Head(str)) \o ToLowerCase(Tail(str))

\* the least element of a non-empty set of numbers
Least(set) == CHOOSE m \in set : \A n \in set : m <= n

\* the index of the last character of the longest run of characters of set
\* `chars` that starts at index `from`; from - 1 when there is none
RunEnd(str, from, chars) ==
  Least({ j \in from..(Len(str) + 1) : j > Len(str) \/ Char(str, j) \notin chars }) - 1

\* the same for the characters outside `chars`
RunEndNot(str, from, chars) ==
  Least({ j \in from..(Len(str) + 1) : j > Len(str) \/ Char(str, j) \in chars }) - 1

\* str.split(' ')
RECURSIVE Split(_, _)
Split(str, sep) ==
  LET end == RunEndNot(str, 1, {sep})
  IN IF end = Len(str) THEN <<str>>
     ELSE <<SubSeq(str, 1, end)>> \o Split(SubSeq(str, end + 2, Len(str)), sep)

\* array.filter(s => s.length > 0)
NonEmptyOnly(list) == SelectSeq(list, LAMBDA str : Len(str) > 0)

\* array.join(sep)
RECURSIVE Join(_, _)
Join(list, sep) ==
  IF list = <<>> THEN ""
  ELSE IF Len(list) = 1 THEN list[1]
  ELSE list[1] \o sep \o Join(Tail(list), sep)

\* /Bearer\s+(.+)/i tried at index i: the first index of group 1, 0 if no match there
BearerGroupStartAt(str, i) ==
  IF i + 5 > Len(str) \/ ToLowerCase(SubSeq(str, i, i + 5)) # "bearer" THEN 0
  ELSE LET spacesEnd == RunEnd(str, i + 6, SpaceChars)
           starts == { g \in (i + 7)..(spacesEnd + 1) :
                         g <= Len(str) /\ Char(str, g) \notin LineTerminators }
       IN IF starts = {} THEN 0 ELSE CHOOSE g \in starts : \A h \in starts : h <= g

\* headerValue.match(/Bearer\s+(.+)/i): group 1 of the leftmost match, or no match
BearerMatch(str) ==
  LET matches == { i \in 1..Len(str) : BearerGroupStartAt(str, i) > 0 }
  IN IF matches = {} THEN Undefined
     ELSE LET i == CHOOSE m \in matches : \A n \in matches : m <= n
              g == BearerGroupStartAt(str, i)
          IN Some(SubSeq(str, g, RunEndNot(str, g, LineTerminators)))

\* /(\w+)=(?:"([^"]*)"|([^\s,]+))/ tried at index i: the key, the value
\* (match[2] || match[3]) and the index of the last character matched
ParamMatchAt(str, i) ==
  LET keyEnd == RunEnd(str, i, WordChars)
      v == keyEnd + 2
      closing == RunEndNot(str, v + 1, {"\""}) + 1
      bareEnd == RunEndNot(str, v, SpaceChars \cup {","})
  IN IF keyEnd < i \/ keyEnd + 1 > Len(str) \/ Char(str, keyEnd + 1) # "=" THEN Undefined
     ELSE IF v <= Len(str) /\ Char(str, v) = "\"" /\ closing <= Len(str) THEN
       Some([ key   |-> SubSeq(str, i, keyEnd),
              value |-> IF closing > v + 1 THEN Some(SubSeq(str, v + 1, closing - 1))
                                           ELSE Undefined,
              end   |-> closing ])
     ELSE IF bareEnd >= v THEN
       Some([ key   |-> SubSeq(str, i, keyEnd),
              value |-> Some(SubSeq(str, v, bareEnd)),
              end   |-> bareEnd ])
     ELSE Undefined

\* paramRegex.exec(params) with lastIndex = from - 1: the leftmost match
ParamExec(str, from) ==
  LET matches == { i \in from..Len(str) : ParamMatchAt(str, i) # Undefined }
  IN IF matches = {} THEN Undefined
     ELSE ParamMatchAt(str, CHOOSE m \in matches : \A n \in matches : m <= n)

\* the while loop over the matches, with the switch on the lower-cased key
RECURSIVE ParseParams(_, _, _)
ParseParams(params, from, challenge) ==
  LET match == ParamExec(params, from)
  IN IF match = Undefined THEN challenge
     ELSE LET key == ToLowerCase(match[1].key)
              value == match[1].value
              next ==
                CASE key = "resource_metadata" -> [challenge EXCEPT !.resource_metadata = value]
                  [] key = "scope"             -> [challenge EXCEPT !.scope = value]
                  [] key = "error"             -> [challenge EXCEPT !.error = value]
                  [] key = "error_description" -> [challenge EXCEPT !.error_description = value]
                  [] OTHER                     -> challenge
          IN ParseParams(params, match[1].end + 1, next)

\* parseWWWAuthenticateHeader: the challenge, or Null
parseWWWAuthenticateHeader(headerValue) ==
  IF headerValue = "" THEN Null
  ELSE LET bearerMatch == BearerMatch(headerValue)
       IN IF bearerMatch = Undefined THEN Null
          ELSE ParseParams(bearerMatch[1], 1,
                           [ scheme            |-> "Bearer",
                             resource_metadata |-> Undefined,
                             scope             |-> Undefined,
                             error             |-> Undefined,
                             error_description |-> Undefined ])

(***************************************************************************)
(* Metadata discovery (oauth.ts).  A URL string is the sequence of its     *)
(* pieces: the scheme and authority as one piece, then "/" and the path    *)
(* segments, so that concatenation, a trailing slash and a doubled slash   *)
(* are what they are in the string.  A discovery call awaiting a fetch is  *)
(* the request in `network`, which carries the call's local variables.     *)
(***************************************************************************)
\* scheme and authority as written, and as the URL parser reports them (lower case)
LowerCase(origin) ==
  CASE origin = "HTTPS://AUTH.EXAMPLE.COM" -> "https://auth.example.com"
    [] origin = "HTTPS://MCP.EXAMPLE.COM"  -> "https://mcp.example.com"
    [] OTHER -> origin

Origins ==
  { "https://auth.example.com", "HTTPS://AUTH.EXAMPLE.COM", "https://evil.example.com",
    "https://mcp.example.com", "HTTPS://MCP.EXAMPLE.COM" }

\* new URL(u): throws for a string that is no absolute URL, otherwise gives
\* the lower-case origin and the pathname, "/" when the string has no path
IsURL(u) == Len(u) > 0 /\ u[1] \in Origins

ParseURL(u) ==
  [ origin   |-> LowerCase(u[1]),
    pathname |-> IF Len(u) = 1 THEN <<"/">> ELSE Tail(u) ]

\* path.endsWith('/') && path !== '/' ? path.slice(0, -1) : path
NormalizedPath(path) ==
  IF path[Len(path)] = "/" /\ path # <<"/">> THEN SubSeq(path, 1, Len(path) - 1) ELSE path

WellKnown(name) == <<"/", ".well-known", "/", name>>

\* an Error with its message; the URLs a message quotes are kept beside it
Error(message, urls) == [message |-> message, urls |-> urls]

\* a JSON value that is an array, and one that is not
JsonArray(items) == [array |-> items]
JsonString(str) == [string |-> str]
IsArray(v) == "array" \in DOMAIN v

\* truthiness of an optional JSON member holding a URL string or any object
Truthy(o) == o # Undefined /\ o[1] # <<>>

\* the result of a call that returns v, and of one that throws e
Returned(v) == [ok |-> TRUE, value |-> v]
Threw(e) == [ok |-> FALSE, error |-> e]

\* fetchAuthorizationServerMetadata on the response the fetch settled with
fetchAuthorizationServerMetadata(resp) ==
  IF resp.kind = "rejected" THEN Threw(Error(resp.text, <<>>))
  ELSE IF resp.kind = "notOk" THEN
    Threw(Error("Failed to fetch Authorization Server Metadata: " \o resp.text, <<>>))
  ELSE IF \/ ~Truthy(resp.metadata.issuer)
          \/ ~Truthy(resp.metadata.authorization_endpoint)
          \/ ~Truthy(resp.metadata.token_endpoint) THEN
    Threw(Error("Invalid Authorization Server Metadata: missing required fields", <<>>))
  ELSE IF \/ resp.metadata.response_types_supported = Undefined
          \/ ~IsArray(resp.metadata.response_types_supported[1])
          \/ Len(resp.metadata.response_types_supported[1].array) = 0 THEN
    Threw(Error("Invalid Authorization Server Metadata: response_types_supported is required",
                <<>>))
  ELSE Returned(resp.metadata)

\* a candidate list that tries path appending before path insertion
ASDiscoveryUrls_AppendFirst(issuerUrl) ==
  LET url == ParseURL(issuerUrl)
      normalizedPath == NormalizedPath(url.pathname)
  IN IF normalizedPath # <<>> /\ normalizedPath # <<"/">>
       THEN << issuerUrl \o WellKnown("openid-configuration"),
               <<url.origin>> \o WellKnown("oauth-authorization-server") \o normalizedPath,
               <<url.origin>> \o WellKnown("openid-configuration") \o normalizedPath >>
       ELSE << <<url.origin>> \o WellKnown("oauth-authorization-server"),
               <<url.origin>> \o WellKnown("openid-configuration") >>

\* the URLs discoverAuthorizationServerMetadata builds, in the order it tries them
ASDiscoveryUrls(issuerUrl) ==
  LET url == ParseURL(issuerUrl)
      normalizedPath == NormalizedPath(url.pathname)
  IN IF normalizedPath # <<>> /\ normalizedPath # <<"/">>
       THEN << <<url.origin>> \o WellKnown("oauth-authorization-server") \o normalizedPath,
               <<url.origin>> \o WellKnown("openid-configuration") \o normalizedPath,
               issuerUrl \o WellKnown("openid-configuration") >>
       ELSE << <<url.origin>> \o WellKnown("oauth-authorization-server"),
               <<url.origin>> \o WellKnown("openid-configuration") >>

\* an issuer comparison that looks at the origin alone
IssuerMatches_OriginOnly(metadataIssuer, issuerUrl) ==
  LowerCase(ParseURL(metadataIssuer).origin) = LowerCase(ParseURL(issuerUrl).origin)

\* the issuer comparison in the loop of discoverAuthorizationServerMetadata
IssuerMatches(metadataIssuer, issuerUrl) ==
  /\ LowerCase(ParseURL(metadataIssuer).origin) = LowerCase(ParseURL(issuerUrl).origin)
  /\ ParseURL(metadataIssuer).pathname = ParseURL(issuerUrl).pathname

\* the body of the try block for one candidate: the metadata it returns, or
\* the error lastError is set to
ASCandidate(resp, issuerUrl) ==
  LET fetched == fetchAuthorizationServerMetadata(resp)
  IN IF ~fetched.ok THEN fetched
     ELSE IF ~IsURL(fetched.value.issuer[1]) THEN Threw(Error("Invalid URL", <<>>))
     ELSE IF IssuerMatches(fetched.value.issuer[1], issuerUrl) THEN fetched
     ELSE Threw(Error("Issuer mismatch", <<issuerUrl, fetched.value.issuer[1]>>))

\* an error that names only the URL tried last
DiscoveryError_LastUrlOnly(what, inputUrl, discoveryUrls, lastError) ==
  [ message   |-> "Failed to discover " \o what,
    for       |-> inputUrl,
    tried     |-> <<discoveryUrls[Len(discoveryUrls)]>>,
    lastError |-> lastError.message,
    urls      |-> lastError.urls ]

\* the error thrown after the loop
DiscoveryError(what, inputUrl, discoveryUrls, lastError) ==
  [ message   |-> "Failed to discover " \o what,
    for       |-> inputUrl,
    tried     |-> discoveryUrls,
    lastError |-> lastError.message,
    urls      |-> lastError.urls ]

\* a metadata fetch in flight and the locals of the discovery call awaiting it
MetadataFetch(fn, inputUrl, discoveryUrls, i, fetched) ==
  [ fn            |-> fn,
    url           |-> discoveryUrls[i],
    inputUrl      |-> inputUrl,
    discoveryUrls |-> discoveryUrls,
    i             |-> i,
    fetched       |-> Append(fetched, discoveryUrls[i]) ]

\* the issuer URLs discovery is called with
IssuerUrls ==
  { <<"https://auth.example.com">>,
    <<"https://auth.example.com", "/">>,
    <<"https://auth.example.com", "/", "tenant1">>,
    <<"https://auth.example.com", "/", "tenant1", "/">>,
    <<"HTTPS://AUTH.EXAMPLE.COM", "/", "tenant1">>,
    <<"not-a-url">> }

\* what a metadata URL may answer to discoverAuthorizationServerMetadata
ASMetadataResponses ==
  { [kind |-> "notOk", text |-> "404 Not Found"],
    [kind |-> "rejected", text |-> "fetch failed"] }
  \cup
  [ kind     : {"ok"},
    metadata : [ issuer : {Undefined} \cup
                          { Some(u) : u \in IssuerUrls \cup
                                            { <<"https://auth.example.com", "/", "Tenant1">>,
                                              <<"https://evil.example.com", "/", "tenant1">> } },
                 authorization_endpoint :
                   {Undefined, Some(<<"https://auth.example.com", "/", "authorize">>)},
                 token_endpoint :
                   {Undefined, Some(<<"https://auth.example.com", "/", "token">>)},
                 response_types_supported :
                   {Undefined, Some(JsonArray(<<>>)), Some(JsonArray(<<"code">>)),
                    Some(JsonString("code"))} ] ]

\* discoverAuthorizationServerMetadata from its call to its first await
DiscoverAuthorizationServerMetadata(issuerUrl) ==
  /\ network = EmptyBag
  /\ IF ~IsURL(issuerUrl) THEN
       /\ last' = Step("discoverAuthorizationServerMetadata", issuerUrl,
                       Thrown(Error("Invalid URL", <<>>)), "invalidUrl")
       /\ UNCHANGED network
     ELSE
       /\ network' = SetToBag({MetadataFetch("discoverAuthorizationServerMetadata", issuerUrl,
                                             ASDiscoveryUrls(issuerUrl), 1, <<>>)})
       /\ last' = Step("discoverAuthorizationServerMetadata", issuerUrl, Suspended, "fetch")
  /\ UNCHANGED <<tokens, pendingState, config, now>>

\* the loop of discoverAuthorizationServerMetadata from one await to the next
\* await, return or throw
AuthorizationServerMetadataFetched(req, resp) ==
  /\ BagIn(req, network)
  /\ req.fn = "discoverAuthorizationServerMetadata"
  /\ LET candidate == ASCandidate(resp, req.inputUrl)
         arg == [req |-> req, resp |-> resp]
     IN IF candidate.ok THEN
          /\ network' = EmptyBag
          /\ last' = Step("authorizationServerMetadataFetched", arg,
                          RetValue(candidate.value), "accepted")
        ELSE IF req.i < Len(req.discoveryUrls) THEN
          /\ network' = SetToBag({MetadataFetch(req.fn, req.inputUrl, req.discoveryUrls,
                                                req.i + 1, req.fetched)})
          /\ last' = Step("authorizationServerMetadataFetched", arg, Suspended, "next")
        ELSE
          /\ network' = EmptyBag
          /\ last' = Step("authorizationServerMetadataFetched", arg,
                          Thrown(DiscoveryError("Authorization Server Metadata", req.inputUrl,
                                                req.discoveryUrls, candidate.error)),
                          "failed")
  /\ UNCHANGED <<tokens, pendingState, config, now>>

\* fetchProtectedResourceMetadata on the response the fetch settled with
fetchProtectedResourceMetadata(resp) ==
  IF resp.kind = "rejected" THEN Threw(Error(resp.text, <<>>))
  ELSE IF resp.kind = "notOk" THEN
    Threw(Error("Failed to fetch Protected Resource Metadata: " \o resp.text, <<>>))
  ELSE IF \/ ~Truthy(resp.metadata.resource)
          \/ resp.metadata.authorization_servers = Undefined
          \/ ~IsArray(resp.metadata.authorization_servers[1]) THEN
    Threw(Error("Invalid Protected Resource Metadata: missing required fields", <<>>))
  ELSE IF Len(resp.metadata.authorization_servers[1].array) = 0 THEN
    Threw(Error("Invalid Protected Resource Metadata: no authorization servers listed", <<>>))
  ELSE Returned(resp.metadata)

\* a candidate list that tries the root well-known URI first
PRDiscoveryUrls_RootFirst(resourceUrl) ==
  LET url == ParseURL(resourceUrl)
      normalizedPath == NormalizedPath(url.pathname)
      wellKnownBase == WellKnown("oauth-protected-resource")
  IN (<< <<url.origin>> \o wellKnownBase >>)
     \o (IF normalizedPath # <<>> /\ normalizedPath # <<"/">>
           THEN << <<url.origin>> \o wellKnownBase \o normalizedPath >>
           ELSE << >>)

\* the URLs discoverProtectedResourceMetadata builds, in the order it tries them
PRDiscoveryUrls(resourceUrl) ==
  LET url == ParseURL(resourceUrl)
      normalizedPath == NormalizedPath(url.pathname)
      wellKnownBase == WellKnown("oauth-protected-resource")
  IN (IF normalizedPath # <<>> /\ normalizedPath # <<"/">>
        THEN << <<url.origin>> \o wellKnownBase \o normalizedPath >>
        ELSE << >>)
     \o << <<url.origin>> \o wellKnownBase >>

\* the resource URLs discovery is called with
ResourceUrls ==
  { <<"https://mcp.example.com">>,
    <<"https://mcp.example.com", "/">>,
    <<"https://mcp.example.com", "/", "mcp">>,
    <<"https://mcp.example.com", "/", "mcp", "/">>,
    <<"https://mcp.example.com", "/", "api", "/", "mcp">>,
    <<"HTTPS://MCP.EXAMPLE.COM", "/", "mcp">>,
    <<"not-a-url">> }

\* what a metadata URL may answer to discoverProtectedResourceMetadata
PRMetadataResponses ==
  { [kind |-> "notOk", text |-> "404 Not Found"],
    [kind |-> "notOk", text |-> "500 Internal Server Error"],
    [kind |-> "rejected", text |-> "fetch failed"] }
  \cup
  [ kind     : {"ok"},
    metadata : [ resource : {Undefined, Some(<<"https://mcp.example.com", "/", "mcp">>),
                             Some(<<"https://mcp.example.com">>)},
                 authorization_servers :
                   {Undefined, Some(JsonArray(<<>>)),
                    Some(JsonArray(<< <<"https://auth.example.com">> >>)),
                    Some(JsonArray(<< <<"https://auth.example.com", "/", "tenant1">>,
                                      <<"https://evil.example.com">> >>)),
                    Some(JsonString("https://auth.example.com"))} ] ]

\* discoverProtectedResourceMetadata from its call to its first await
DiscoverProtectedResourceMetadata(resourceUrl) ==
  /\ network = EmptyBag
  /\ IF ~IsURL(resourceUrl) THEN
       /\ last' = Step("discoverProtectedResourceMetadata", resourceUrl,
                       Thrown(Error("Invalid URL", <<>>)), "invalidUrl")
       /\ UNCHANGED network
     ELSE
       /\ network' = SetToBag({MetadataFetch("discoverProtectedResourceMetadata", resourceUrl,
                                             PRDiscoveryUrls(resourceUrl), 1, <<>>)})
       /\ last' = Step("discoverProtectedResourceMetadata", resourceUrl, Suspended, "fetch")
  /\ UNCHANGED <<tokens, pendingState, config, now>>

\* the loop of discoverProtectedResourceMetadata from one await to the next
\* await, return or throw
ProtectedResourceMetadataFetched(req, resp) ==
  /\ BagIn(req, network)
  /\ req.fn = "discoverProtectedResourceMetadata"
  /\ LET candidate == fetchProtectedResourceMetadata(resp)
         arg == [req |-> req, resp |-> resp]
     IN IF candidate.ok THEN
          /\ network' = EmptyBag
          /\ last' = Step("protectedResourceMetadataFetched", arg,
                          RetValue(candidate.value), "accepted")
        ELSE IF req.i < Len(req.discoveryUrls) THEN
          /\ network' = SetToBag({MetadataFetch(req.fn, req.inputUrl, req.discoveryUrls,
                                                req.i + 1, req.fetched)})
          /\ last' = Step("protectedResourceMetadataFetched", arg, Suspended, "next")
        ELSE
          /\ network' = EmptyBag
          /\ last' = Step("protectedResourceMetadataFetched", arg,
                          Thrown(DiscoveryError("Protected Resource Metadata", req.inputUrl,
                                                req.discoveryUrls, candidate.error)),
                          "failed")
  /\ UNCHANGED <<tokens, pendingState, config, now>>

(***************************************************************************)
(* The synchronous functions of oauth.ts, each called on its own: scope    *)
(* selection, the step-up check, the header parser, the authorization URL  *)
(* and the PKCE check.  A list of strings is a sequence; an optional       *)
(* argument is Undefined or Some(v).                                       *)
(***************************************************************************)
\* scope selection that prefers the discovered scopes to the challenge
determineScopesToRequest_DiscoveredFirst(challengeScope, scopesSupported, configuredScopes) ==
  IF scopesSupported # Undefined /\ Len(scopesSupported[1]) > 0 THEN scopesSupported
  ELSE IF TruthyStr(challengeScope) THEN Some(NonEmptyOnly(Split(challengeScope[1], " ")))
  ELSE IF configuredScopes # Undefined /\ Len(configuredScopes[1]) > 0 THEN configuredScopes
  ELSE Undefined

determineScopesToRequest(challengeScope, scopesSupported, configuredScopes) ==
  IF TruthyStr(challengeScope) THEN Some(NonEmptyOnly(Split(challengeScope[1], " ")))
  ELSE IF scopesSupported # Undefined /\ Len(scopesSupported[1]) > 0 THEN scopesSupported
  ELSE IF configuredScopes # Undefined /\ Len(configuredScopes[1]) > 0 THEN configuredScopes
  ELSE Undefined

\* the fields of the InsufficientScopeError the constructor is given
InsufficientScopeError(requiredScopes, currentScopes, resourceMetadata, errorDescription) ==
  [ name             |-> "InsufficientScopeError",
    requiredScopes   |-> requiredScopes,
    currentScopes    |-> currentScopes,
    resourceMetadata |-> resourceMetadata,
    errorDescription |-> errorDescription ]

\* a step-up check that does not look at the status code
checkInsufficientScope_AnyStatus(statusCode, wwwAuthenticateHeader, currentScopes) ==
  IF ~TruthyStr(wwwAuthenticateHeader) THEN Null
  ELSE LET challenge == parseWWWAuthenticateHeader(wwwAuthenticateHeader[1])
       IN IF challenge = Null THEN Null
          ELSE IF challenge.error # Some("insufficient_scope") THEN Null
          ELSE IF ~TruthyStr(challenge.scope) THEN Null
          ELSE InsufficientScopeError(NonEmptyOnly(Split(challenge.scope[1], " ")),
                                      currentScopes, challenge.resource_metadata,
                                      challenge.error_description)

\* checkInsufficientScope: the error object, or Null
checkInsufficientScope(statusCode, wwwAuthenticateHeader, currentScopes) ==
  IF statusCode # 403 THEN Null
  ELSE IF ~TruthyStr(wwwAuthenticateHeader) THEN Null
  ELSE LET challenge == parseWWWAuthenticateHeader(wwwAuthenticateHeader[1])
       IN IF challenge = Null THEN Null
          ELSE IF challenge.error # Some("insufficient_scope") THEN Null
          ELSE IF ~TruthyStr(challenge.scope) THEN Null
          ELSE InsufficientScopeError(NonEmptyOnly(Split(challenge.scope[1], " ")),
                                      currentScopes, challenge.resource_metadata,
                                      challenge.error_description)

\* buildAuthorizationUrl: the URL as config.authorizationUrl and the query
\* parameters in the order URLSearchParams holds them, names and values as
\* given (before percent-encoding)
buildAuthorizationUrl(cfg, oauthState, scopes) ==
  [ base   |-> cfg.authorizationUrl,
    params |-> << <<"client_id", cfg.clientId>>,
                  <<"response_type", "code">>,
                  <<"redirect_uri", cfg.redirectUri>>,
                  <<"state", oauthState.state>>,
                  <<"code_challenge", oauthState.codeChallenge>>,
                  <<"code_challenge_method", "S256">> >>
               \o (IF scopes # Undefined /\ Len(scopes[1]) > 0
                     THEN << <<"scope", Join(scopes[1], " ")>> >> ELSE << >>)
               \o (IF TruthyStr(cfg.resource)
                     THEN << <<"resource", cfg.resource[1]>> >> ELSE << >>) ]

\* a PKCE check that is content with any listed method
validatePKCESupport_AnyMethod(metadata) ==
  IF metadata.code_challenge_methods_supported = Undefined THEN
    Thrown("Authorization server does not support PKCE. "
           \o "The code_challenge_methods_supported field is missing from server metadata. "
           \o "MCP clients MUST refuse to proceed without PKCE support.")
  ELSE IF metadata.code_challenge_methods_supported[1] = <<>> THEN
    Thrown("Authorization server does not support PKCE with S256. Supported methods: . "
           \o "MCP clients MUST use S256 when technically capable.")
  ELSE Void

\* validatePKCESupport: returns, or throws
validatePKCESupport(metadata) ==
  IF metadata.code_challenge_methods_supported = Undefined THEN
    Thrown("Authorization server does not support PKCE. "
           \o "The code_challenge_methods_supported field is missing from server metadata. "
           \o "MCP clients MUST refuse to proceed without PKCE support.")
  ELSE IF \A i \in 1..Len(metadata.code_challenge_methods_supported[1]) :
             metadata.code_challenge_methods_supported[1][i] # "S256" THEN
    Thrown("Authorization server does not support PKCE with S256. Supported methods: "
           \o Join(metadata.code_challenge_methods_supported[1], ", ") \o ". "
           \o "MCP clients MUST use S256 when technically capable.")
  ELSE Void

\* the WWW-Authenticate header values the functions are called with
Headers ==
  { "",
    "Bearer",
    "Bearer error=\"insufficient_scope\", scope=\"read write admin\"",
    "bearer error=insufficient_scope, scope=read",
    "Bearer error=\"invalid_token\", scope=\"read write\"",
    "Bearer error=\"insufficient_scope\"",
    "Bearer error=\"insufficient_scope\", scope=\"\"",
    "Bearer error=\"insufficient_scope\", scope=\" \"",
    "Bearer error=\"insufficient_scope_error\", scope=\"read\"",
    "Bearer error=\"insufficient_scope\", scope=\" read  write \", "
      \o "resource_metadata=\"https://mcp.example.com/custom/metadata\", "
      \o "error_description=\"Additional scope required\"",
    "Bearer realm=\"mcp\", resource_metadata=\"https://mcp.example.com/custom/metadata\"",
    "Bearer scope=\"read\twrite\"",
    "Basic realm=\"api\"",
    "Basic realm=\"Bearer tokens\", error=\"insufficient_scope\", scope=\"admin\"" }

\* the status codes, scope strings and scope lists the functions are called with
StatusCodes == {401, 403}

ChallengeScopes ==
  {Undefined, Some(""), Some("read write"), Some("read  write  "), Some(" "),
   Some("read\twrite")}

ScopeLists == {Undefined, Some(<<>>), Some(<<"admin", "user">>), Some(<<"default">>)}

ScopesArguments ==
  {Undefined, Some(<<>>), Some(<<"read", "write">>), Some(<<"openid">>), Some(<<"">>)}

PKCEMetadata ==
  [ code_challenge_methods_supported :
      {Undefined, Some(<<>>), Some(<<"plain">>), Some(<<"S256">>), Some(<<"plain", "S256">>),
       Some(<<"s256">>)} ]

\* a value or null as a return value
RetOrNull(v) == IF v = Null THEN RetNull ELSE RetValue(v)

\* the header and current-scopes arguments of checkInsufficientScope
HeaderArguments == {Undefined} \cup { Some(h) : h \in Headers }
CurrentScopesArguments == {Undefined, Some(<<"read">>)}

\* the results of the calls over the arguments above; @@ makes each table an
\* explicit function, so that a result is computed once and not at every step
ParsedHeaders == [ h \in Headers |-> parseWWWAuthenticateHeader(h) ] @@ <<>>

InsufficientScopeChecks ==
  [ a \in StatusCodes \X HeaderArguments \X CurrentScopesArguments |->
      checkInsufficientScope(a[1], a[2], a[3]) ] @@ <<>>

ParseWWWAuthenticateHeader(headerValue) ==
  /\ last' = Step("parseWWWAuthenticateHeader", [headerValue |-> headerValue],
                  RetOrNull(ParsedHeaders[headerValue]), "")
  /\ UNCHANGED <<tokens, pendingState, config, now, network>>

CheckInsufficientScope(statusCode, wwwAuthenticateHeader, currentScopes) ==
  /\ last' = Step("checkInsufficientScope",
                  [ statusCode            |-> statusCode,
                    wwwAuthenticateHeader |-> wwwAuthenticateHeader,
                    currentScopes         |-> currentScopes ],
                  RetOrNull(InsufficientScopeChecks[<<statusCode, wwwAuthenticateHeader,
                                                      currentScopes>>]), "")
  /\ UNCHANGED <<tokens, pendingState, config, now, network>>

DetermineScopesToRequest(challengeScope, scopesSupported, configuredScopes) ==
  /\ last' = Step("determineScopesToRequest",
                  [ challengeScope   |-> challengeScope,
                    scopesSupported  |-> scopesSupported,
                    configuredScopes |-> configuredScopes ],
                  RetValue(determineScopesToRequest(challengeScope, scopesSupported,
                                                    configuredScopes)), "")
  /\ UNCHANGED <<tokens, pendingState, config, now, network>>

BuildAuthorizationUrl(cfg, oauthState, scopes) ==
  /\ last' = Step("buildAuthorizationUrl",
                  [config |-> cfg, oauthState |-> oauthState, scopes |-> scopes],
                  RetValue(buildAuthorizationUrl(cfg, oauthState, scopes)), "")
  /\ UNCHANGED <<tokens, pendingState, config, now, network>>

ValidatePKCESupport(metadata) ==
  /\ last' = Step("validatePKCESupport", [metadata |-> metadata],
                  validatePKCESupport(metadata), "")
  /\ UNCHANGED <<tokens, pendingState, config, now, network>>

FunctionsNext ==
  \/ \E headerValue \in Headers : ParseWWWAuthenticateHeader(headerValue)
  \/ \E statusCode \in StatusCodes, wwwAuthenticateHeader \in HeaderArguments,
        currentScopes \in CurrentScopesArguments :
        CheckInsufficientScope(statusCode, wwwAuthenticateHeader, currentScopes)
  \/ \E challengeScope \in ChallengeScopes, scopesSupported \in ScopeLists,
        configuredScopes \in ScopeLists :
        DetermineScopesToRequest(challengeScope, scopesSupported, configuredScopes)
  \/ \E cfg \in Configs, oauthState \in OAuthStates, scopes \in ScopesArguments :
        BuildAuthorizationUrl(cfg, oauthState, scopes)
  \/ \E metadata \in PKCEMetadata : ValidatePKCESupport(metadata)

FunctionsSpec == Init /\ [][FunctionsNext]_vars

(***************************************************************************)
(* Discovery from a challenge: discoverAuthorizationFromResource, which    *)
(* takes the metadata URL from the WWW-Authenticate header when it has one *)
(* and runs the well-known discovery otherwise.  A URL taken from a header *)
(* is kept as the one piece it came as.                                    *)
(***************************************************************************)
\* what a metadata URL may answer to discoverAuthorizationFromResource
ResourceMetadataResponses ==
  { [kind |-> "notOk", text |-> "404 Not Found"],
    [kind |-> "rejected", text |-> "fetch failed"] }
  \cup
  [ kind     : {"ok"},
    metadata : [ resource : {Undefined, Some(<<"https://mcp.example.com", "/", "mcp">>)},
                 authorization_servers :
                   {Some(JsonArray(<<>>)),
                    Some(JsonArray(<< <<"https://auth.example.com", "/", "tenant1">> >>))},
                 scopes_supported : {Undefined, Some(<<"mcp:read", "mcp:tools">>)} ] ]

\* a metadata fetch in flight and the locals of the discoverAuthorizationFromResource
\* call awaiting it, directly or inside discoverProtectedResourceMetadata
ResourceMetadataFetch(resourceUrl, header, challengedScopes, direct, discoveryUrls, i, fetched) ==
  [ fn                    |-> "discoverAuthorizationFromResource",
    url                   |-> discoveryUrls[i],
    inputUrl              |-> resourceUrl,
    wwwAuthenticateHeader |-> header,
    challengedScopes      |-> challengedScopes,
    direct                |-> direct,
    discoveryUrls         |-> discoveryUrls,
    i                     |-> i,
    fetched               |-> Append(fetched, discoveryUrls[i]) ]

\* a result that takes the scopes from the metadata before the header
AuthorizationFromResourceResult_MetadataFirst(metadata, challengedScopes) ==
  [ authorizationServers |-> metadata.authorization_servers[1].array,
    scopes               |-> IF metadata.scopes_supported # Undefined
                               THEN metadata.scopes_supported
                             ELSE IF TruthyStr(challengedScopes)
                               THEN Some(Split(challengedScopes[1], " "))
                             ELSE Undefined ]

\* the object discoverAuthorizationFromResource returns
AuthorizationFromResourceResult(metadata, challengedScopes) ==
  [ authorizationServers |-> metadata.authorization_servers[1].array,
    scopes               |-> IF TruthyStr(challengedScopes)
                               THEN Some(Split(challengedScopes[1], " "))
                               ELSE metadata.scopes_supported ]

\* discoverAuthorizationFromResource from its call to its first await
DiscoverAuthorizationFromResource(resourceUrl, wwwAuthenticateHeader) ==
  /\ network = EmptyBag
  /\ LET challenge == IF TruthyStr(wwwAuthenticateHeader)
                        THEN ParsedHeaders[wwwAuthenticateHeader[1]] ELSE Null
         metadataUrl == IF challenge = Null THEN Undefined ELSE challenge.resource_metadata
         challengedScopes == IF challenge = Null THEN Undefined ELSE challenge.scope
         arg == [resourceUrl |-> resourceUrl, wwwAuthenticateHeader |-> wwwAuthenticateHeader]
     IN IF TruthyStr(metadataUrl) THEN
          /\ network' = SetToBag({ResourceMetadataFetch(resourceUrl, wwwAuthenticateHeader,
                                    challengedScopes, TRUE, << <<metadataUrl[1]>> >>, 1, <<>>)})
          /\ last' = Step("discoverAuthorizationFromResource", arg, Suspended, "header")
        ELSE IF ~IsURL(resourceUrl) THEN
          /\ last' = Step("discoverAuthorizationFromResource", arg,
                          Thrown(Error("Invalid URL", <<>>)), "invalidUrl")
          /\ UNCHANGED network
        ELSE
          /\ network' = SetToBag({ResourceMetadataFetch(resourceUrl, wwwAuthenticateHeader,
                                    challengedScopes, FALSE, PRDiscoveryUrls(resourceUrl),
                                    1, <<>>)})
          /\ last' = Step("discoverAuthorizationFromResource", arg, Suspended, "wellKnown")
  /\ UNCHANGED <<tokens, pendingState, config, now>>

\* a continuation that turns to the well-known URLs when the header's URL fails
AuthorizationFromResourceFetched_FallsBack(req, resp) ==
  /\ BagIn(req, network)
  /\ req.fn = "discoverAuthorizationFromResource"
  /\ LET candidate == fetchProtectedResourceMetadata(resp)
         arg == [req |-> req, resp |-> resp]
     IN IF candidate.ok THEN
          /\ network' = EmptyBag
          /\ last' = Step("authorizationFromResourceFetched", arg,
                          RetValue(AuthorizationFromResourceResult(candidate.value,
                                                                   req.challengedScopes)),
                          "accepted")
        ELSE IF req.direct THEN
          /\ network' = SetToBag({ResourceMetadataFetch(req.inputUrl, req.wwwAuthenticateHeader,
                                    req.challengedScopes, FALSE, PRDiscoveryUrls(req.inputUrl),
                                    1, req.fetched)})
          /\ last' = Step("authorizationFromResourceFetched", arg, Suspended, "next")
        ELSE IF req.i < Len(req.discoveryUrls) THEN
          /\ network' = SetToBag({ResourceMetadataFetch(req.inputUrl, req.wwwAuthenticateHeader,
                                    req.challengedScopes, req.direct, req.discoveryUrls,
                                    req.i + 1, req.fetched)})
          /\ last' = Step("authorizationFromResourceFetched", arg, Suspended, "next")
        ELSE
          /\ network' = EmptyBag
          /\ last' = Step("authorizationFromResourceFetched", arg,
                          Thrown(DiscoveryError("Protected Resource Metadata", req.inputUrl,
                                                req.discoveryUrls, candidate.error)),
                          "failed")
  /\ UNCHANGED <<tokens, pendingState, config, now>>

\* discoverAuthorizationFromResource from one await to the next await, its
\* return or its throw: after the direct fetch, or inside the loop of
\* discoverProtectedResourceMetadata
AuthorizationFromResourceFetched(req, resp) ==
  /\ BagIn(req, network)
  /\ req.fn = "discoverAuthorizationFromResource"
  /\ LET candidate == fetchProtectedResourceMetadata(resp)
         arg == [req |-> req, resp |-> resp]
     IN IF candidate.ok THEN
          /\ network' = EmptyBag
          /\ last' = Step("authorizationFromResourceFetched", arg,
                          RetValue(AuthorizationFromResourceResult(candidate.value,
                                                                   req.challengedScopes)),
                          "accepted")
        ELSE IF req.direct THEN
          /\ network' = EmptyBag
          /\ last' = Step("authorizationFromResourceFetched", arg,
                          Thrown(candidate.error), "failed")
        ELSE IF req.i < Len(req.discoveryUrls) THEN
          /\ network' = SetToBag({ResourceMetadataFetch(req.inputUrl, req.wwwAuthenticateHeader,
                                    req.challengedScopes, req.direct, req.discoveryUrls,
                                    req.i + 1, req.fetched)})
          /\ last' = Step("authorizationFromResourceFetched", arg, Suspended, "next")
        ELSE
          /\ network' = EmptyBag
          /\ last' = Step("authorizationFromResourceFetched", arg,
                          Thrown(DiscoveryError("Protected Resource Metadata", req.inputUrl,
                                                req.discoveryUrls, candidate.error)),
                          "failed")
  /\ UNCHANGED <<tokens, pendingState, config, now>>

DiscoveryNext ==
  \/ \E issuerUrl \in IssuerUrls : DiscoverAuthorizationServerMetadata(issuerUrl)
  \/ \E req \in BagToSet(network), resp \in ASMetadataResponses :
        AuthorizationServerMetadataFetched(req, resp)
  \/ \E resourceUrl \in ResourceUrls : DiscoverProtectedResourceMetadata(resourceUrl)
  \/ \E req \in BagToSet(network), resp \in PRMetadataResponses :
        ProtectedResourceMetadataFetched(req, resp)
  \/ \E resourceUrl \in ResourceUrls, wwwAuthenticateHeader \in HeaderArguments :
        DiscoverAuthorizationFromResource(resourceUrl, wwwAuthenticateHeader)
  \/ \E req \in BagToSet(network), resp \in ResourceMetadataResponses :
        AuthorizationFromResourceFetched(req, resp)

DiscoverySpec == Init /\ [][DiscoveryNext]_vars

(***************************************************************************)
(* The network operations of the core together: the refresh of the token  *)
(* store, the code exchange of the acquire-token script and the discovery  *)
(* calls, whose requests share the network.  A request is told apart by   *)
(* the call that sent it.  The script and the discovery calls neither read *)
(* nor write the store, so they are run on the store as it is constructed  *)
(* and with no call of another kind in flight.                             *)
(***************************************************************************)
\* the requests of refreshAccessToken, of exchangeCodeForToken and of the
\* metadata fetches
IsRefreshRequest(r) == "grant_type" \in DOMAIN r
IsExchange(r) == "caller" \in DOMAIN r
IsMetadataFetch(r) == "fn" \in DOMAIN r

RefreshRequests == { r \in BagToSet(network) : IsRefreshRequest(r) }
Exchanges == { r \in BagToSet(network) : IsExchange(r) }
MetadataFetches == { r \in BagToSet(network) : IsMetadataFetch(r) }

\* the store as the constructor leaves it
StoreIsNew == tokens = Null /\ config = Null

\* the TokenSets whose use sends a refresh request: expired, with a refresh token
RefreshableTokens ==
  { t \in TokenInputs(now) : TruthyStr(t.refreshToken) /\ isTokenExpired(t, now) }

\* the redirects that report no error
CodeCallbacks == { params \in CallbackParams : params.error = Undefined }

CoreNext ==
  \/ \E cfg \in Configs : SetConfig(cfg)
  \/ \E t \in RefreshableTokens : SetTokens(t)
  \/ ClearTokens
  \/ Exchanges = {} /\ MetadataFetches = {} /\ GetValidAccessToken
  \/ \E req \in RefreshRequests, resp \in SuccessResponses : RefreshSucceeded(req, resp)
  \/ \E req \in RefreshRequests, resp \in FailureResponses : RefreshFailed(req, resp)
  \/ \E cfg \in Configs, oauthState \in NewOAuthStates(now), params \in CodeCallbacks :
        /\ StoreIsNew /\ RefreshRequests = {} /\ MetadataFetches = {}
        /\ AcquireTokensCallback(cfg, oauthState, params)
  \/ \E x \in Exchanges, resp \in ExchangeSuccessResponses \cup ExchangeFailureResponses :
        AcquireTokensExchangeDone(x, resp)
  \/ \E issuerUrl \in IssuerUrls :
        StoreIsNew /\ DiscoverAuthorizationServerMetadata(issuerUrl)
  \/ \E req \in MetadataFetches, resp \in ASMetadataResponses :
        AuthorizationServerMetadataFetched(req, resp)
  \/ \E resourceUrl \in ResourceUrls :
        StoreIsNew /\ DiscoverProtectedResourceMetadata(resourceUrl)
  \/ \E req \in MetadataFetches, resp \in PRMetadataResponses :
        ProtectedResourceMetadataFetched(req, resp)
  \/ \E resourceUrl \in ResourceUrls, wwwAuthenticateHeader \in HeaderArguments :
        StoreIsNew /\ DiscoverAuthorizationFromResource(resourceUrl, wwwAuthenticateHeader)
  \/ \E req \in MetadataFetches, resp \in ResourceMetadataResponses :
        AuthorizationFromResourceFetched(req, resp)

CoreSpec == Init /\ [][CoreNext]_vars

(***************************************************************************)
(* The core and a caller that arms a timer for every call.  fetch is given *)
(* no signal by refreshAccessToken, exchangeCodeForToken or the metadata   *)
(* fetches, and none of the functions takes a timeout, so the timer has    *)
(* nothing to act on: it fires and the request stays in flight.  The       *)
(* timer is fair; the server is not obliged to answer.                     *)
(***************************************************************************)
CallerTimeout ==
  /\ network # EmptyBag
  /\ last' = Step("callerTimeout", Null, Void, "")
  /\ UNCHANGED <<tokens, pendingState, config, now, network>>

TimeoutNext ==
  \/ CoreNext
  \/ CallerTimeout

TimeoutSpec == Init /\ [][TimeoutNext]_vars /\ WF_vars(CallerTimeout)

(***************************************************************************)
(* The properties.  They state expiry and the presence of a refresh token  *)
(* in the specification's words, not through the operators above.          *)
(***************************************************************************)
\* expired: no TokenSet, no expiresAt, or the time is at or past expiresAt minus 5 minutes
ExpiredBySpec(t, time) ==
  \/ t = Null
  \/ t.expiresAt = Undefined
  \/ time >= t.expiresAt[1] - 5 * MinuteMs

HasRefreshToken(t) == t # Null /\ t.refreshToken # Undefined

StoreUnchanged == UNCHANGED <<tokens, pendingState, config>>

\* C1: getValidAccessToken on an expired TokenSet with a refresh token and a config
\* puts exactly one refresh request (for that refresh token) on the network and
\* suspends; when the request is answered with success no further request is
\* sent, the stored TokenSet carries the response's access token and the call
\* returns that access token.
C1_RefreshOnceThenNewToken ==
  [][ /\ ( /\ last'.op = "getValidAccessToken"
           /\ tokens # Null
           /\ ExpiredBySpec(tokens, now)
           /\ HasRefreshToken(tokens)
           /\ config # Null )
         => /\ BagCardinality(network') = BagCardinality(network) + 1
            /\ \E req \in BagToSet(network') :
                  /\ CopiesIn(req, network') = CopiesIn(req, network) + 1
                  /\ req.grant_type = "refresh_token"
                  /\ req.refresh_token = tokens.refreshToken[1]
            /\ last'.ret = Suspended
            /\ tokens' = tokens
      /\ last'.op = "refreshSucceeded"
         => /\ network' = network (-) SetToBag({last'.arg.req})
            /\ BagCardinality(network') = BagCardinality(network) - 1
            /\ tokens' # Null
            /\ tokens'.accessToken = last'.arg.resp.data.access_token
            /\ last'.ret = RetToken(last'.arg.resp.data.access_token)
    ]_vars

C1_Witness ==
  /\ last.op = "refreshSucceeded"
  /\ last.arg.req.refresh_token = "r0"
  /\ tokens.accessToken = "a1"
  /\ last.ret = RetToken("a1")

\* C2: after a failed refresh the store holds no tokens and the call has thrown
\* the refresh error (for a response that is not ok, 'Token refresh failed: '
\* followed by the response body); it has returned neither a token nor none.
C2_RefreshFailureClearsAndThrows ==
  last.op = "refreshFailed"
    => /\ tokens = Null
       /\ last.ret.kind = "error"
       /\ last.arg.resp.kind = "notOk"
            => last.ret.msg = "Token refresh failed: " \o last.arg.resp.text
       /\ last.arg.resp.kind = "rejected" => last.ret.msg = last.arg.resp.text

C2_Witness ==
  /\ last.op = "refreshFailed"
  /\ last.arg.resp.kind = "notOk"
  /\ last.ret = Thrown("Token refresh failed: Invalid refresh token")
  /\ tokens = Null

\* C3: getValidAccessToken on an expired TokenSet without a refresh token clears
\* the tokens and returns none, throws nothing and sends no request, with or
\* without a config.
C3_ExpiredWithoutRefreshToken ==
  [][ ( /\ last'.op = "getValidAccessToken"
        /\ tokens # Null
        /\ ExpiredBySpec(tokens, now)
        /\ ~HasRefreshToken(tokens) )
      => /\ tokens' = Null
         /\ last'.ret = RetNull
         /\ network' = network
         /\ UNCHANGED <<config, pendingState>>
    ]_vars

C3_Witness ==
  /\ last.op = "getValidAccessToken"
  /\ last.branch = "noRefreshToken"
  /\ last.ret = RetNull
  /\ config = Null
  /\ tokens = Null

\* C4: at most one refresh request per refresh token is in flight at any time:
\* two overlapping getValidAccessToken calls never each send their own refresh.
C4_SingleFlightRefresh ==
  \A r1 \in BagToSet(network), r2 \in BagToSet(network) :
    r1.refresh_token = r2.refresh_token => (r1 = r2 /\ CopiesIn(r1, network) = 1)

\* C5: the tokens go from present to absent only in a clearTokens step, in the
\* failure of a refresh, or in a getValidAccessToken call that found them
\* expired with no refresh token.
C5_TokensRemovedOnlyByThreeEvents ==
  [][ (tokens # Null /\ tokens' = Null)
      => \/ last'.op = "clearTokens"
         \/ last'.op = "refreshFailed"
         \/ /\ last'.op = "getValidAccessToken"
            /\ ExpiredBySpec(tokens, now)
            /\ ~HasRefreshToken(tokens)
    ]_vars

C5_Witness ==
  /\ last.op = "refreshFailed"
  /\ last.arg.resp.kind = "rejected"
  /\ tokens = Null
  /\ config # Null

C7_ValidOrAbsentIsReadOnly ==
  [][ /\ ( /\ last'.op = "getValidAccessToken"
           /\ tokens # Null
           /\ ~ExpiredBySpec(tokens, now) )
         => /\ last'.ret = RetToken(tokens.accessToken)
            /\ network' = network
            /\ StoreUnchanged
      /\ ( /\ last'.op = "getValidAccessToken"
           /\ tokens = Null )
         => /\ last'.ret = RetNull
            /\ network' = network
            /\ StoreUnchanged
    ]_vars

C7_Witness ==
  /\ last.op = "getValidAccessToken"
  /\ last.ret = RetToken("a0")
  /\ tokens # Null
  /\ HasRefreshToken(tokens)
  /\ config # Null
  /\ pendingState # Null

\* C8: isAuthenticated returns true exactly when tokens are stored and not
\* expired; it changes nothing in the store and sends no request.
C8_IsAuthenticatedReadOnly ==
  [][ last'.op = "isAuthenticated"
      => /\ last'.ret = RetBool(tokens # Null /\ ~ExpiredBySpec(tokens, now))
         /\ network' = network
         /\ StoreUnchanged
    ]_vars

C8_Witness ==
  /\ last.op = "isAuthenticated"
  /\ last.ret = RetBool(FALSE)
  /\ HasRefreshToken(tokens)
  /\ config # Null
  /\ network = EmptyBag

\* C9: getStatus changes nothing in the store and sends no request; its
\* authenticated flag is what isAuthenticated answers, its hasRefreshToken
\* flag says whether the stored TokenSet has a refresh token, and both are
\* false when no tokens are stored.
C9_GetStatusSnapshot ==
  [][ last'.op = "getStatus"
      => /\ last'.ret.val.authenticated = (tokens # Null /\ ~ExpiredBySpec(tokens, now))
         /\ last'.ret.val.hasRefreshToken = HasRefreshToken(tokens)
         /\ tokens = Null
              => last'.ret.val = [authenticated |-> FALSE, hasRefreshToken |-> FALSE]
         /\ network' = network
         /\ StoreUnchanged
    ]_vars

C9_Witness ==
  /\ last.op = "getStatus"
  /\ last.ret.val.authenticated = TRUE
  /\ last.ret.val.hasRefreshToken = FALSE
  /\ tokens # Null

\* C10: the one pending state is read once: setPendingState makes its argument
\* the pending state whatever was pending before, getPendingState returns the
\* pending state and leaves none, and nothing else changes the pending state,
\* so a later getPendingState returns null until setPendingState is called.
C10_PendingStateReadOnce ==
  [][ /\ last'.op = "setPendingState" => pendingState' = last'.arg
      /\ last'.op = "getPendingState"
           => /\ last'.ret = RetValue(pendingState)
              /\ pendingState' = Null
      /\ pendingState' # pendingState
           => last'.op \in {"setPendingState", "getPendingState"}
      /\ (pendingState = Null /\ last'.op # "setPendingState") => pendingState' = Null
    ]_vars

C10_Witness ==
  /\ last.op = "getPendingState"
  /\ last.ret.val # Null
  /\ last.ret.val.state = "state-2"
  /\ pendingState = Null

\* C13: getValidAccessToken called on an expired TokenSet that has a refresh
\* token while no config is set throws 'OAuth config not set', sends no
\* request and leaves the stored tokens as they were.
C13_ExpiredWithoutConfigThrows ==
  [][ ( /\ last'.op = "getValidAccessToken"
        /\ tokens # Null
        /\ ExpiredBySpec(tokens, now)
        /\ HasRefreshToken(tokens)
        /\ config = Null )
      => ( /\ last'.ret = Thrown("OAuth config not set")
           /\ network' = network
           /\ tokens' = tokens
           /\ config' = Null )
    ]_vars

C13_Witness ==
  /\ last.op = "getValidAccessToken"
  /\ last.ret = Thrown("OAuth config not set")
  /\ tokens # Null
  /\ HasRefreshToken(tokens)
  /\ ExpiredBySpec(tokens, now)
  /\ config = Null

\* C14: after a successful refresh the stored TokenSet holds the response's
\* refresh token when the response has one and the refresh token the request
\* was made with when it has none; either way it holds a refresh token.
C14_RefreshTokenCarriedForward ==
  last.op = "refreshSucceeded"
  => /\ tokens # Null
     /\ HasRefreshToken(tokens)
     /\ tokens.refreshToken = IF last.arg.resp.data.refresh_token # Undefined
                                THEN last.arg.resp.data.refresh_token
                                ELSE Some(last.arg.req.refresh_token)

C14_Witness ==
  /\ last.op = "refreshSucceeded"
  /\ last.arg.resp.data.refresh_token = Undefined
  /\ last.arg.req.refresh_token = "r1"
  /\ tokens.refreshToken = Some("r1")

\* C15: in a configured store that starts with a TokenSet holding a refresh
\* token and whose refresh requests all succeed, getValidAccessToken never
\* returns none and never throws: it returns an access token at once or
\* after its refresh; and the store always holds a TokenSet.
C15_AlwaysAnAccessToken ==
  /\ tokens # Null
  /\ config # Null
  /\ last.op = "getValidAccessToken" => last.ret.kind \in {"token", "suspended"}
  /\ last.op = "refreshSucceeded" => last.ret = RetToken(tokens.accessToken)

C15_Witness ==
  /\ last.op = "refreshSucceeded"
  /\ last.arg.req.refresh_token = "r1"
  /\ last.ret = RetToken("a1")
  /\ now > 0

\* C16: the stored TokenSet changes only as a whole: every change of it either
\* removes it, or stores the TokenSet passed to setTokens, or stores the
\* TokenSet one successful refresh returned; starting a refresh and a failed
\* refresh store no TokenSet, so the old one stays while a refresh is in flight.
C16_TokensReplacedWhole ==
  [][ /\ tokens' # tokens
         => \/ tokens' = Null
            \/ last'.op = "setTokens" /\ tokens' = last'.arg
            \/ /\ last'.op = "refreshSucceeded"
               /\ tokens' = RefreshedTokens(last'.arg.resp.data, last'.arg.req.refresh_token, now)
               /\ last'.ret = RetToken(tokens'.accessToken)
      /\ (last'.op = "getValidAccessToken" /\ last'.ret = Suspended) => tokens' = tokens
      /\ last'.op = "refreshFailed" => tokens' = Null
    ]_vars

C16_Witness ==
  /\ last.op = "getValidAccessToken"
  /\ last.ret = Suspended
  /\ tokens # Null
  /\ tokens.accessToken = "a1"
  /\ BagCardinality(network) = 1

\* C11: completing a flow compares the callback's state with the pending
\* OAuthState before the code is used: when they differ the attempt fails with
\* the state-mismatch error, no token-exchange request is sent and no tokens are
\* stored; when no flow is pending it fails with the different 'no pending
\* flow' error; a code exchange starts only for a callback whose state matched.
C11_StateValidatedBeforeExchange ==
  [][ /\ ( /\ last'.op = "completeFlow"
           /\ config # Null
           /\ pendingState # Null
           /\ last'.arg.state # pendingState.state )
         => ( /\ last'.ret = Thrown("State mismatch")
              /\ network' = network
              /\ tokens' = tokens )
      /\ ( /\ last'.op = "completeFlow"
           /\ config # Null
           /\ pendingState = Null )
         => ( /\ last'.ret = Thrown("No pending OAuth flow")
              /\ last'.ret # Thrown("State mismatch")
              /\ network' = network
              /\ tokens' = tokens )
      /\ ( /\ last'.op = "acquireTokensCallback"
           /\ last'.arg.params.error = Undefined
           /\ last'.arg.params.state # Some(last'.arg.oauthState.state) )
         => ( /\ last'.ret = Thrown("State mismatch")
              /\ network' = network
              /\ tokens' = tokens )
      /\ ( /\ last'.op = "completeFlow"
           /\ network' # network )
         => ( /\ pendingState # Null
              /\ last'.arg.state = pendingState.state )
      /\ ( /\ last'.op = "acquireTokensCallback"
           /\ network' # network )
         => last'.arg.params.state = Some(last'.arg.oauthState.state)
    ]_vars

C11_Witness ==
  /\ last.op = "completeFlow"
  /\ last.ret = Thrown("State mismatch")
  /\ last.arg.state = "forged"
  /\ network = EmptyBag
  /\ tokens = Null

\* C12: a state mismatch is fatal for the flow: the failed attempt leaves no
\* pending OAuthState, an attempt made while none is pending never starts a
\* code exchange or stores tokens whatever state it presents, and only
\* beginning a fresh flow makes an OAuthState pending again.
C12_MismatchIsFatal ==
  [][ /\ ( /\ last'.op = "completeFlow"
           /\ last'.ret = Thrown("State mismatch") )
         => pendingState' = Null
      /\ ( /\ last'.op = "completeFlow"
           /\ pendingState = Null )
         => ( /\ last'.ret \in {Thrown("No pending OAuth flow"), Thrown("OAuth not configured")}
              /\ network' = network
              /\ tokens' = tokens )
      /\ ( /\ pendingState = Null
           /\ pendingState' # Null )
         => last'.op = "beginFlow"
    ]_vars

C12_Witness ==
  /\ last.op = "completeFlow"
  /\ last.branch = "stateMismatch"
  /\ last.arg.state \in { st.state : st \in OAuthStates }
  /\ pendingState = Null

\* the pieces of a URL string as the claims speak of them: the origin in lower
\* case, the path after it, and the path with one trailing slash dropped
OriginOf(u) == LowerCase(u[1])
PathOf(u) == IF Len(u) = 1 THEN <<"/">> ELSE Tail(u)
PathInserted(u) ==
  LET rest == Tail(u)
  IN IF rest # <<>> /\ rest[Len(rest)] = "/" THEN SubSeq(rest, 1, Len(rest) - 1) ELSE rest
IsPrefix(a, b) == Len(a) <= Len(b) /\ a = SubSeq(b, 1, Len(a))

\* the candidates of an issuer in the order the claim lists them
ASCandidatesBySpec(issuer) ==
  IF PathInserted(issuer) # <<>>
    THEN << <<OriginOf(issuer), "/", ".well-known", "/", "oauth-authorization-server">>
               \o PathInserted(issuer),
            <<OriginOf(issuer), "/", ".well-known", "/", "openid-configuration">>
               \o PathInserted(issuer),
            issuer \o <<"/", ".well-known", "/", "openid-configuration">> >>
    ELSE << <<OriginOf(issuer), "/", ".well-known", "/", "oauth-authorization-server">>,
            <<OriginOf(issuer), "/", ".well-known", "/", "openid-configuration">> >>

\* C17: discoverAuthorizationServerMetadata fetches its candidates strictly in
\* the listed order (path-inserted oauth-authorization-server, path-inserted
\* openid-configuration, issuer-appended openid-configuration for an issuer
\* with a path; the two root URLs otherwise), one at a time, goes on to the
\* next only after a rejection, and fetches nothing after the first accepted.
C17_ASCandidatesInOrder ==
  /\ \A req \in BagToSet(network) :
       req.fn = "discoverAuthorizationServerMetadata"
       => /\ BagCardinality(network) = 1
          /\ IsPrefix(req.fetched, ASCandidatesBySpec(req.inputUrl))
          /\ req.url = req.fetched[Len(req.fetched)]
  /\ last.op = "authorizationServerMetadataFetched"
     => LET done == last.arg.req.fetched
            all == ASCandidatesBySpec(last.arg.req.inputUrl)
        IN /\ IsPrefix(done, all)
           /\ last.branch = "accepted" => network = EmptyBag
           /\ last.branch = "failed" => network = EmptyBag /\ done = all
           /\ last.branch = "next"
              => /\ Len(done) < Len(all)
                 /\ \E req \in BagToSet(network) :
                       req.fetched = SubSeq(all, 1, Len(done) + 1)

C17_Witness ==
  /\ last.op = "authorizationServerMetadataFetched"
  /\ last.branch = "accepted"
  /\ last.arg.req.inputUrl = <<"https://auth.example.com", "/", "tenant1">>
  /\ last.arg.req.fetched =
       << <<"https://auth.example.com", "/", ".well-known", "/",
            "oauth-authorization-server", "/", "tenant1">>,
          <<"https://auth.example.com", "/", ".well-known", "/",
            "openid-configuration", "/", "tenant1">>,
          <<"https://auth.example.com", "/", "tenant1", "/", ".well-known", "/",
            "openid-configuration">> >>

\* a response an authorization-server candidate is accepted for: success
\* status, issuer, authorization_endpoint and token_endpoint present,
\* response_types_supported a non-empty array, and the issuer equal to the
\* expected one (origin compared without case, path exactly)
ASAcceptableBySpec(resp, issuer) ==
  /\ resp.kind = "ok"
  /\ resp.metadata.issuer # Undefined
  /\ resp.metadata.authorization_endpoint # Undefined
  /\ resp.metadata.token_endpoint # Undefined
  /\ resp.metadata.response_types_supported \in { Some(JsonArray(<<"code">>)) }
  /\ resp.metadata.issuer[1][1] \in Origins
  /\ OriginOf(resp.metadata.issuer[1]) = OriginOf(issuer)
  /\ PathOf(resp.metadata.issuer[1]) = PathOf(issuer)

\* C18: an authorization-server candidate is accepted exactly when its
\* response has a success status, carries issuer, authorization_endpoint,
\* token_endpoint and a non-empty response_types_supported, and its issuer
\* matches the expected one; the metadata returned is that response's.
C18_ASCandidateAcceptance ==
  last.op = "authorizationServerMetadataFetched"
  => /\ last.branch = "accepted" <=> ASAcceptableBySpec(last.arg.resp, last.arg.req.inputUrl)
     /\ last.branch = "accepted" => last.ret = RetValue(last.arg.resp.metadata)
     /\ last.branch # "accepted" => last.ret.kind \in {"suspended", "error"}

C18_Witness ==
  /\ last.op = "authorizationServerMetadataFetched"
  /\ last.branch = "next"
  /\ last.arg.req.inputUrl = <<"https://auth.example.com", "/", "tenant1">>
  /\ last.arg.resp.kind = "ok"
  /\ last.arg.resp.metadata.issuer = Some(<<"https://auth.example.com", "/", "Tenant1">>)
  /\ last.arg.resp.metadata.authorization_endpoint # Undefined
  /\ last.arg.resp.metadata.token_endpoint # Undefined
  /\ last.arg.resp.metadata.response_types_supported = Some(JsonArray(<<"code">>))

\* C19: when every candidate was rejected the discovery call throws an error
\* that names the URL it was called for, lists every URL it fetched in the
\* order it fetched them, and carries the error of the last candidate.
C19_DiscoveryFailureReport ==
  /\ ( last.op = "authorizationServerMetadataFetched" /\ last.branch = "failed" )
     => /\ last.ret.kind = "error"
        /\ last.ret.msg.message = "Failed to discover Authorization Server Metadata"
        /\ last.ret.msg.for = last.arg.req.inputUrl
        /\ last.ret.msg.tried = last.arg.req.fetched
        /\ Len(last.ret.msg.tried) \in {2, 3}
        /\ last.ret.msg.lastError = ASCandidate(last.arg.resp, last.arg.req.inputUrl).error.message
  /\ ( last.op = "protectedResourceMetadataFetched" /\ last.branch = "failed" )
     => /\ last.ret.kind = "error"
        /\ last.ret.msg.message = "Failed to discover Protected Resource Metadata"
        /\ last.ret.msg.for = last.arg.req.inputUrl
        /\ last.ret.msg.tried = last.arg.req.fetched
        /\ Len(last.ret.msg.tried) \in {1, 2}
        /\ last.ret.msg.lastError = fetchProtectedResourceMetadata(last.arg.resp).error.message
  /\ last.op \in {"authorizationServerMetadataFetched", "protectedResourceMetadataFetched"}
     => ( last.ret.kind = "error" <=> last.branch = "failed" )

C19_Witness ==
  /\ last.op = "authorizationServerMetadataFetched"
  /\ last.branch = "failed"
  /\ Len(last.ret.msg.tried) = 3
  /\ last.ret.msg.lastError = "Issuer mismatch"

\* the candidates of a resource URL in the order the claim lists them
PRCandidatesBySpec(resource) ==
  IF PathInserted(resource) # <<>>
    THEN << <<OriginOf(resource), "/", ".well-known", "/", "oauth-protected-resource">>
               \o PathInserted(resource),
            <<OriginOf(resource), "/", ".well-known", "/", "oauth-protected-resource">> >>
    ELSE << <<OriginOf(resource), "/", ".well-known", "/", "oauth-protected-resource">> >>

\* C20: discoverProtectedResourceMetadata fetches the path-inserted well-known
\* URL first when the resource URL has a path and the root well-known URL
\* last in every case, accepts the first response with a success status, a
\* resource and a non-empty authorization_servers array, returns it, and
\* fetches nothing after it.
C20_PRCandidatesInOrder ==
  /\ \A req \in BagToSet(network) :
       req.fn = "discoverProtectedResourceMetadata"
       => /\ BagCardinality(network) = 1
          /\ IsPrefix(req.fetched, PRCandidatesBySpec(req.inputUrl))
          /\ req.url = req.fetched[Len(req.fetched)]
  /\ last.op = "protectedResourceMetadataFetched"
     => LET done == last.arg.req.fetched
            all == PRCandidatesBySpec(last.arg.req.inputUrl)
            resp == last.arg.resp
        IN /\ IsPrefix(done, all)
           /\ all[Len(all)] = <<OriginOf(last.arg.req.inputUrl), "/", ".well-known", "/",
                                "oauth-protected-resource">>
           /\ last.branch = "accepted"
              <=> /\ resp.kind = "ok"
                  /\ resp.metadata.resource # Undefined
                  /\ resp.metadata.authorization_servers # Undefined
                  /\ IsArray(resp.metadata.authorization_servers[1])
                  /\ resp.metadata.authorization_servers[1].array # <<>>
           /\ last.branch = "accepted"
              => network = EmptyBag /\ last.ret = RetValue(resp.metadata)
           /\ last.branch = "failed" => network = EmptyBag /\ done = all
           /\ last.branch = "next"
              => /\ Len(done) < Len(all)
                 /\ \E req \in BagToSet(network) :
                       req.fetched = SubSeq(all, 1, Len(done) + 1)

C20_Witness ==
  /\ last.op = "protectedResourceMetadataFetched"
  /\ last.branch = "accepted"
  /\ last.arg.req.inputUrl = <<"https://mcp.example.com", "/", "mcp">>
  /\ last.arg.req.fetched =
       << <<"https://mcp.example.com", "/", ".well-known", "/", "oauth-protected-resource",
            "/", "mcp">>,
          <<"https://mcp.example.com", "/", ".well-known", "/", "oauth-protected-resource">> >>

\* the tokens of a string: its longest runs of characters that are no separators
RECURSIVE TokensOf(_, _)
TokensOf(str, seps) ==
  LET start == RunEnd(str, 1, seps) + 1
  IN IF start > Len(str) THEN << >>
     ELSE LET end == RunEndNot(str, start, seps)
          IN <<SubSeq(str, start, end)>> \o TokensOf(SubSeq(str, end + 1, Len(str)), seps)

Range(seq) == { seq[i] : i \in 1..Len(seq) }
HasWhitespace(str) == \E i \in 1..Len(str) : Char(str, i) \in SpaceChars

\* C23: determineScopesToRequest follows a strict priority: a non-empty
\* challenge scope string decides the result alone; without one a non-empty
\* scopes_supported list is returned as it is; without that a non-empty
\* configured list is returned as it is; otherwise the result is none.
C23_ScopePriority ==
  last.op = "determineScopesToRequest"
  => LET a == last.arg
         result == last.ret.val
     IN IF a.challengeScope \notin {Undefined, Some("")}
          THEN /\ result # Undefined
               /\ result = determineScopesToRequest(a.challengeScope, Undefined, Undefined)
               /\ Range(result[1]) \subseteq Range(TokensOf(a.challengeScope[1], {" "}))
        ELSE IF a.scopesSupported \notin {Undefined, Some(<<>>)}
          THEN result = a.scopesSupported
        ELSE IF a.configuredScopes \notin {Undefined, Some(<<>>)}
          THEN result = a.configuredScopes
        ELSE result = Undefined

C23_Witness ==
  /\ last.op = "determineScopesToRequest"
  /\ last.arg.challengeScope = Some("read write")
  /\ last.arg.scopesSupported = Some(<<"admin", "user">>)
  /\ last.arg.configuredScopes = Some(<<"default">>)
  /\ last.ret = RetValue(Some(<<"read", "write">>))

\* C24: for every non-empty challenge scope string determineScopesToRequest
\* returns, as a non-none result, the string's tokens between whitespace, so
\* that no returned token is empty or contains whitespace.
C24_ChallengeScopeSplitOnWhitespace ==
  ( last.op = "determineScopesToRequest" /\ last.arg.challengeScope \notin {Undefined, Some("")} )
  => /\ last.ret.val # Undefined
     /\ last.ret.val[1] = TokensOf(last.arg.challengeScope[1], SpaceChars)
     /\ \A token \in Range(last.ret.val[1]) : token # "" /\ ~HasWhitespace(token)

\* the values of the query parameter `name` in a URL buildAuthorizationUrl returned
ParamValues(url, name) == { p[2] : p \in { q \in Range(url.params) : q[1] = name } }

\* C25: every URL buildAuthorizationUrl returns has client_id,
\* response_type=code, redirect_uri, state, code_challenge and
\* code_challenge_method=S256 and no other method; it has a scope parameter
\* exactly when the scopes argument is a non-empty list, and never an empty
\* scope parameter; it has resource exactly when config.resource is set.
C25_AuthorizationUrlParameters ==
  last.op = "buildAuthorizationUrl"
  => LET a == last.arg
         url == last.ret.val
     IN /\ url.base = a.config.authorizationUrl
        /\ ParamValues(url, "client_id") = {a.config.clientId}
        /\ ParamValues(url, "response_type") = {"code"}
        /\ ParamValues(url, "redirect_uri") = {a.config.redirectUri}
        /\ ParamValues(url, "state") = {a.oauthState.state}
        /\ ParamValues(url, "code_challenge") = {a.oauthState.codeChallenge}
        /\ ParamValues(url, "code_challenge_method") = {"S256"}
        /\ ParamValues(url, "scope") # {} <=> a.scopes \notin {Undefined, Some(<<>>)}
        /\ "" \notin ParamValues(url, "scope")
        /\ ParamValues(url, "resource") # {} <=> a.config.resource # Undefined

\* C26: validatePKCESupport throws exactly when
\* code_challenge_methods_supported is missing or does not list S256, with a
\* message that says so, and returns otherwise; and an authorization URL never
\* carries another challenge method than S256 or no code challenge.
C26_PKCERequired ==
  /\ last.op = "validatePKCESupport"
     => LET methods == last.arg.metadata.code_challenge_methods_supported
        IN /\ last.ret.kind = "error" <=> ( methods = Undefined \/ "S256" \notin Range(methods[1]) )
           /\ last.ret.kind # "error" => last.ret = Void
           /\ last.ret.kind = "error"
              => SubSeq(last.ret.msg, 1, 42) = "Authorization server does not support PKCE"
  /\ last.op = "buildAuthorizationUrl"
     => /\ ParamValues(last.ret.val, "code_challenge_method") = {"S256"}
        /\ ParamValues(last.ret.val, "code_challenge") = {last.arg.oauthState.codeChallenge}

C26_Witness ==
  /\ last.op = "validatePKCESupport"
  /\ last.arg.metadata.code_challenge_methods_supported = Some(<<"plain">>)
  /\ last.ret.kind = "error"

\* C27: checkInsufficientScope returns a signal exactly when the status is
\* 403, a header is given, it parses as a Bearer challenge whose error is
\* insufficient_scope, and the challenge has a scope; the signal carries the
\* challenge's scopes split on spaces without empty tokens, the caller's
\* current scopes, and the challenge's resource_metadata and error_description.
C27_InsufficientScopeSignal ==
  last.op = "checkInsufficientScope"
  => LET a == last.arg
         challenge == IF a.wwwAuthenticateHeader = Undefined THEN Null
                      ELSE ParsedHeaders[a.wwwAuthenticateHeader[1]]
         signalled == /\ a.statusCode = 403
                      /\ a.wwwAuthenticateHeader # Undefined
                      /\ challenge # Null
                      /\ challenge.error = Some("insufficient_scope")
                      /\ challenge.scope # Undefined
     IN /\ last.ret # RetNull <=> signalled
        /\ signalled
           => /\ last.ret.kind = "value"
              /\ last.ret.val.requiredScopes = TokensOf(challenge.scope[1], {" "})
              /\ last.ret.val.currentScopes = a.currentScopes
              /\ last.ret.val.resourceMetadata = challenge.resource_metadata
              /\ last.ret.val.errorDescription = challenge.error_description

C27_Witness ==
  /\ last.op = "checkInsufficientScope"
  /\ last.arg.currentScopes = Some(<<"read">>)
  /\ last.ret.kind = "value"
  /\ last.ret.val.requiredScopes = <<"read", "write">>
  /\ last.ret.val.resourceMetadata = Some("https://mcp.example.com/custom/metadata")
  /\ last.ret.val.errorDescription = Some("Additional scope required")

\* the scheme of a header value: its first token
SchemeOf(headerValue) ==
  IF TokensOf(headerValue, SpaceChars) = << >> THEN ""
  ELSE TokensOf(headerValue, SpaceChars)[1]

\* C28: parseWWWAuthenticateHeader returns a challenge only for a header whose
\* scheme is Bearer in any letter case; for a header with another scheme and
\* for the empty header it returns none; it never throws.
C28_OnlyBearerScheme ==
  last.op = "parseWWWAuthenticateHeader"
  => /\ last.ret.kind \in {"null", "value"}
     /\ last.ret # RetNull => ToLowerCase(SchemeOf(last.arg.headerValue)) = "bearer"
     /\ ToLowerCase(SchemeOf(last.arg.headerValue)) # "bearer" => last.ret = RetNull


\* the challenge discoverAuthorizationFromResource was given: none without a
\* header or with a header that is no Bearer challenge
ChallengeOf(header) ==
  IF header = Undefined THEN Null ELSE parseWWWAuthenticateHeader(header[1])

\* the resource_metadata URL a header carries, if any
CarriedMetadataUrl(header) ==
  IF ChallengeOf(header) = Null THEN Undefined ELSE ChallengeOf(header).resource_metadata

\* the scope attribute a header carries, if any
CarriedScope(header) ==
  IF ChallengeOf(header) = Null THEN Undefined ELSE ChallengeOf(header).scope

\* C21: when the header carries a resource_metadata URL,
\* discoverAuthorizationFromResource fetches exactly that URL and no well-known
\* URL, also when that fetch fails, and the call then ends with that one fetch;
\* with no header, or a header without resource_metadata, the URLs fetched are
\* the well-known protected-resource candidates of the resource URL, in order.
C21_HeaderMetadataUrlOnly ==
  /\ \A req \in BagToSet(network) :
       req.fn = "discoverAuthorizationFromResource" =>
         IF CarriedMetadataUrl(req.wwwAuthenticateHeader) # Undefined
           THEN req.fetched = << <<CarriedMetadataUrl(req.wwwAuthenticateHeader)[1]>> >>
           ELSE IsPrefix(req.fetched, PRCandidatesBySpec(req.inputUrl))
  /\ last.op = "authorizationFromResourceFetched" =>
       IF CarriedMetadataUrl(last.arg.req.wwwAuthenticateHeader) # Undefined
         THEN /\ last.arg.req.fetched =
                   << <<CarriedMetadataUrl(last.arg.req.wwwAuthenticateHeader)[1]>> >>
              /\ last.branch \in {"accepted", "failed"}
              /\ network = EmptyBag
              /\ last.arg.resp.kind # "ok" => last.ret.kind = "error"
         ELSE /\ IsPrefix(last.arg.req.fetched, PRCandidatesBySpec(last.arg.req.inputUrl))
              /\ last.branch = "failed" =>
                   last.arg.req.fetched = PRCandidatesBySpec(last.arg.req.inputUrl)

\* the fetch of a header's resource_metadata URL has failed, for a resource URL
\* that has well-known candidates of its own
C21_Witness ==
  /\ last.op = "authorizationFromResourceFetched"
  /\ last.branch = "failed"
  /\ last.arg.resp.kind = "notOk"
  /\ last.arg.req.inputUrl = <<"https://mcp.example.com", "/", "mcp">>
  /\ last.arg.req.fetched = << <<"https://mcp.example.com/custom/metadata">> >>
  /\ network = EmptyBag

C29_FailedExchangeKeepsTokens ==
  [][ ( /\ last'.op \in {"completeFlowFailed", "acquireTokensExchangeDone"}
        /\ last'.arg.resp.kind = "notOk" )
      => /\ last'.ret = Thrown("Token exchange failed: " \o last'.arg.resp.text)
         /\ tokens' = tokens ]_vars

\* the exchange of oauth_complete was answered with a non-success status while
\* tokens of an earlier flow were stored
C29_Witness ==
  /\ last.op = "completeFlowFailed"
  /\ last.arg.resp = [kind |-> "notOk", text |-> "invalid_grant"]
  /\ last.ret = Thrown("Token exchange failed: invalid_grant")
  /\ tokens # Null


\* the code exchanges a step has sent
ExchangesSent == BagToSet(network' (-) network)

\* the code exchanges in flight
ExchangesInFlight == BagToSet(network)

\* C30: every OAuthState of createOAuthState has
\* codeChallenge = generateCodeChallenge(codeVerifier), a function of the
\* verifier alone; a pending state is never altered, only replaced by the state
\* of a new flow or taken by the callback; and the code_verifier sent to the
\* token endpoint is the verifier of the OAuthState the flow holds.
C30_ChallengeOfVerifier ==
  [][ /\ pendingState' # Null =>
           pendingState'.codeChallenge = generateCodeChallenge(pendingState'.codeVerifier)
      /\ (pendingState # Null /\ pendingState' # pendingState) =>
           \/ last'.op = "beginFlow" /\ pendingState' \in NewOAuthStates(now)
           \/ last'.op = "completeFlow" /\ pendingState' = Null
      /\ (last'.op = "completeFlow" /\ last'.branch = "exchange") =>
           /\ pendingState # Null
           /\ \A x \in ExchangesSent :
                x.req.code_verifier = pendingState.codeVerifier
           /\ ExchangesSent # {}
      /\ (last'.op = "acquireTokensCallback" /\ last'.branch = "exchange") =>
           /\ last'.arg.oauthState.codeChallenge =
                generateCodeChallenge(last'.arg.oauthState.codeVerifier)
           /\ \A x \in ExchangesSent :
                x.req.code_verifier = last'.arg.oauthState.codeVerifier
           /\ ExchangesSent # {} ]_vars

\* the callback of a flow begun with verifier-2 has sent verifier-2 to the
\* token endpoint
C30_Witness ==
  /\ last.op = "completeFlow"
  /\ last.branch = "exchange"
  /\ pendingState = Null
  /\ \E x \in ExchangesInFlight :
       /\ x.caller = "completeFlow"
       /\ x.req.code_verifier = "verifier-2"


\* the requests a step has sent, and the requests in flight before it
RequestsSent == network' (-) network
RequestsAnswered == network (-) network'

\* the steps that start a call, and the steps that resume one on its answer
CallOps ==
  {"getValidAccessToken", "acquireTokensCallback", "discoverAuthorizationServerMetadata",
   "discoverProtectedResourceMetadata", "discoverAuthorizationFromResource"}
TokenAnswerOps == {"refreshSucceeded", "refreshFailed", "acquireTokensExchangeDone"}
MetadataAnswerOps ==
  {"authorizationServerMetadataFetched", "protectedResourceMetadataFetched",
   "authorizationFromResourceFetched"}

\* C31: no failed network operation is retried silently.  A call sends at most
\* one request when it starts; the answer to a refresh or to a code exchange,
\* good or bad, ends the call without another request; the answer to a
\* metadata fetch either ends the discovery call or sends one fetch of a URL
\* that this call has not fetched before.
C31_NoSilentRetry ==
  [][ /\ last'.op \in CallOps =>
           /\ BagCardinality(RequestsSent) <= 1
           /\ RequestsAnswered = EmptyBag
      /\ last'.op \in TokenAnswerOps =>
           /\ RequestsSent = EmptyBag
           /\ BagCardinality(RequestsAnswered) = 1
           /\ last'.ret.kind \in {"token", "value", "error"}
      /\ last'.op \in MetadataAnswerOps =>
           /\ BagCardinality(RequestsAnswered) = 1
           /\ IF last'.branch = "next"
                THEN /\ BagCardinality(RequestsSent) = 1
                     /\ \A r \in BagToSet(RequestsSent) :
                          /\ r.fetched = Append(last'.arg.req.fetched, r.url)
                          /\ r.url \notin Range(last'.arg.req.fetched)
                ELSE /\ RequestsSent = EmptyBag
                     /\ last'.ret.kind \in {"value", "error"} ]_vars

\* a refresh has failed and left nothing in flight
C31_Witness ==
  /\ last.op = "refreshFailed"
  /\ last.ret.kind = "error"
  /\ network = EmptyBag


\* C32: every network operation can be cut short by the caller's timeout, so
\* whenever a request is in flight a call eventually completes, with a result
\* or with an error, even when the server never answers.
C32_CallsComplete ==
  (network # EmptyBag) ~>
    \/ network = EmptyBag
    \/ last.op \in TokenAnswerOps \cup MetadataAnswerOps


\* C33: whenever getValidAccessToken returns a token, directly or after a
\* refresh, the TokenSet stored at that moment is not expired under the
\* five-minute margin, whatever expires_in the refresh response carried.
C33_ReturnedTokenNotExpired ==
  ( /\ last.op \in {"getValidAccessToken", "refreshSucceeded"}
    /\ last.ret.kind = "token" )
  => ~ExpiredBySpec(tokens, now)

\* C34: a logout that runs while a refresh request is in flight stays in
\* force: when the answer to that request is the next thing to happen and is a
\* success, the store is still empty afterwards.
C34_LogoutOutlivesRefresh ==
  [][ (last.op = "clearTokens" /\ last'.op = "refreshSucceeded") => tokens' = Null ]_vars

\* C35: a failing refresh clears only the TokenSet it was refreshing: when
\* setTokens has stored a TokenSet while the request was in flight and the
\* failure is the next thing to happen, that TokenSet is still stored
\* afterwards.
C35_FailedRefreshKeepsNewTokens ==
  [][ (last.op = "setTokens" /\ last'.op = "refreshFailed") => tokens' = last.arg ]_vars

\* C36: stored tokens imply a stored config.
C36_TokensImplyConfig ==
  tokens # Null => config # Null


\* C37: every signal checkInsufficientScope returns carries at least one
\* required scope; a challenge whose scope is empty or only spaces yields none.
C37_SignalHasScopes ==
  (last.op = "checkInsufficientScope" /\ last.ret # RetNull)
  => Len(last.ret.val.requiredScopes) >= 1

\* C38: the scope list discoverAuthorizationFromResource returns for a header
\* scope is the list determineScopesToRequest and checkInsufficientScope derive
\* from the same string, its space-separated tokens: it has no empty token,
\* also with repeated, leading or trailing spaces.
C38_SameScopeList ==
  ( /\ last.op = "authorizationFromResourceFetched"
    /\ last.branch = "accepted"
    /\ CarriedScope(last.arg.req.wwwAuthenticateHeader) # Undefined )
  => /\ last.ret.val.scopes =
          Some(TokensOf(CarriedScope(last.arg.req.wwwAuthenticateHeader)[1], {" "}))
     /\ last.ret.val.scopes =
          determineScopesToRequest(CarriedScope(last.arg.req.wwwAuthenticateHeader),
                                   Undefined, Undefined)
     /\ "" \notin Range(last.ret.val.scopes[1])


\* an issuer URL without its trailing slash, and a URL with two slashes in a row
Slashless(u) == IF Len(u) > 1 /\ u[Len(u)] = "/" THEN SubSeq(u, 1, Len(u) - 1) ELSE u
HasDoubleSlash(u) == \E k \in 1..(Len(u) - 1) : u[k] = "/" /\ u[k + 1] = "/"

\* C39: an issuer URL written with a trailing slash is treated as the URL
\* without it: the call's candidates are those of the slash-less issuer, none
\* has a double slash, and well-formed metadata whose issuer is the slash-less
\* form is accepted.
C39_TrailingSlashIssuer ==
  /\ \A req \in BagToSet(network) :
       req.fn = "discoverAuthorizationServerMetadata"
       => /\ req.discoveryUrls = ASCandidatesBySpec(Slashless(req.inputUrl))
          /\ \A k \in 1..Len(req.discoveryUrls) : ~HasDoubleSlash(req.discoveryUrls[k])
  /\ ( /\ last.op = "authorizationServerMetadataFetched"
       /\ fetchAuthorizationServerMetadata(last.arg.resp).ok
       /\ last.arg.resp.metadata.issuer = Some(Slashless(last.arg.req.inputUrl)) )
     => last.branch = "accepted"

====
